---------------------------- MODULE Spec2Model ----------------------------
(***************************************************************************)
(* Model of the vertical smoothing operator and of the collocation-driven  *)
(* smoothing orchestrator of libharp (harp-vertical-profiles.c), and of    *)
(* the initialisation of the ECMWF GRIB ingestion                          *)
(* (harp-ingest-ecmwf-grib.c).                                             *)
(*                                                                         *)
(* Four specifications share the module:                                   *)
(*   Spec       - the four orchestrator entry points, one action per step  *)
(*                of the C code, every early return included;              *)
(*   SpecSmooth - harp_variable_smooth_vertical as a function of its       *)
(*                arguments, applied to inputs drawn from bounded sets;    *)
(*   SpecProfile - the profile functions (column integrators, tropopause   *)
(*                locator, kernel transforms) and the weighted sum of      *)
(*                harp_product_get_smoothed_column, likewise;              *)
(*   SpecGrib   - init_cursors_and_grid over the messages of a file, one   *)
(*                action per pass of its loops, and the callbacks that     *)
(*                run on the ingest_info it leaves.                        *)
(*                                                                         *)
(* A double is a tuple: <<>> is NaN and <<n>> the number n.  A name is a   *)
(* tuple of string pieces, so that snprintf("%s_avk") is an append and     *)
(* strstr(name, "_avk") a search for the piece.                            *)
(***************************************************************************)
EXTENDS Integers, Sequences, FiniteSets, TLC

VARIABLES
    \* ---- orchestrator (Spec) ----
    fn,             \* the entry point being executed
    pc,             \* position inside the entry point
    product,        \* the caller's source product
    entry,          \* the caller's product and collocation result on entry
    smooth_variables,   \* names of the variables to smooth / name of the column
    collocated,     \* caller's collocated product (product variants)
    collocation_result, \* caller's collocation result (dataset variants)
    filtered,       \* filtered_collocation_result: the shallow copy
    temp,           \* temp_product / merged_product
    cur,            \* collocated_product of the current loop iteration
    regrid,         \* regrid_product of harp_product_get_smoothed_column
    live,           \* handles of temporary objects created and not deleted
    dimension_type, \* dimension_type argument of the column variants
    i,              \* loop counter over dataset B products / smooth variables
    j,              \* inner loop counter over the smooth variables
    rc,             \* return value (meaningful once pc = "done"): 0 or -1
    out,            \* *variable of the column variants
    trace,          \* what happened during the call (history)
    \* ---- harp_variable_smooth_vertical (SpecSmooth) ----
    sv_args,        \* the four arguments and the outcome of malloc
    sv_buffer,      \* variable->data.double_data
    sv_rc,          \* return value (meaningful once sv_pc = "done")
    sv_pc,          \* "call" before the call, "done" after it
    sv_levels,      \* num_vertical_elements of every time row of the call
    \* ---- the profile functions (SpecProfile) ----
    pf_fn,          \* the function called
    pf_args,        \* its arguments
    pf_result,      \* what it returned or wrote (once pf_pc = "done")
    pf_pc,          \* "call" before the call, "done" after it
    \* ---- the ECMWF GRIB ingestion (SpecGrib) ----
    grib_product,   \* the messages of the file
    grib_info,      \* the ingest_info
    grib_i,         \* loop counter of init_cursors_and_grid
    grib_parameter_index,       \* parameter_index of init_cursors_and_grid
    grib_datetime_initialised,  \* datetime_initialised
    grib_pc,        \* position inside ingestion_init
    grib_error,     \* the error that was set, "" when none
    grib_call       \* the last callback that ran and what it returned

orch_vars == <<fn, pc, product, entry, smooth_variables, collocated,
               collocation_result, filtered, temp, cur, regrid, live,
               dimension_type, i, j, rc, out, trace>>
smooth_vars == <<sv_args, sv_buffer, sv_rc, sv_pc, sv_levels>>
profile_vars == <<pf_fn, pf_args, pf_result, pf_pc>>
grib_vars == <<grib_product, grib_info, grib_i, grib_parameter_index,
               grib_datetime_initialised, grib_pc, grib_error, grib_call>>
vars == <<orch_vars, smooth_vars, profile_vars, grib_vars>>

-----------------------------------------------------------------------------
(* Doubles *)

NaN == <<>>
Num(n) == <<n>>
harp_isnan(d) == d = NaN
Add(a, b) == IF harp_isnan(a) \/ harp_isnan(b) THEN NaN ELSE Num(a[1] + b[1])
\* the subtraction with its operands exchanged
Sub_exchanged(a, b) ==
    IF harp_isnan(a) \/ harp_isnan(b) THEN NaN ELSE Num(b[1] - a[1])
Sub(a, b) == IF harp_isnan(a) \/ harp_isnan(b) THEN NaN ELSE Num(a[1] - b[1])
Mul(a, b) == IF harp_isnan(a) \/ harp_isnan(b) THEN NaN ELSE Num(a[1] * b[1])

-----------------------------------------------------------------------------
(* harp_variable: data type, dimension kinds, extents, flat buffer *)

NULL == [data_type |-> "NULL", dimension_type |-> <<>>, dimension |-> <<>>,
         data |-> <<>>]
IsNull(v) == v.data_type = "NULL"

RECURSIVE Prod(_)
Prod(s) == IF s = <<>> THEN 1 ELSE Head(s) * Prod(Tail(s))

Variable(type, dimtypes, dims, data) ==
    [data_type |-> type, dimension_type |-> dimtypes, dimension |-> dims,
     data |-> data]

num_dimensions(v) == Len(v.dimension_type)
num_elements(v) == Prod(v.dimension)

\* C index k of a flat buffer
At(buf, k) == buf[k + 1]

\* get_unpadded_vector_length(&vector[offset], vector_length)
RECURSIVE unpadded_from(_, _, _)
unpadded_from(buf, offset, n) ==
    IF n = 0 THEN 0
    ELSE IF ~harp_isnan(At(buf, offset + n - 1)) THEN n
    ELSE unpadded_from(buf, offset, n - 1)

get_unpadded_vector_length(buf, offset, vector_length) ==
    LET n == unpadded_from(buf, offset, vector_length)
    IN  IF n = 0 THEN vector_length ELSE n

-----------------------------------------------------------------------------
(* harp_variable_smooth_vertical *)

\* The structural validation, in the order of the code: the message of the
\* first check that fails, or "ok".
smooth_vertical_check(variable, vertical_axis, averaging_kernel, apriori) ==
    IF IsNull(variable) THEN "variable is NULL"
    ELSE IF IsNull(averaging_kernel) THEN "avk is NULL"
    ELSE IF variable.data_type # "double" THEN "invalid data type for variable"
    ELSE IF \/ num_dimensions(variable) < 2
            \/ variable.dimension_type[1] # "time"
            \/ variable.dimension_type[num_dimensions(variable)] # "vertical"
         THEN "variable should have dimensions {time,...,vertical}"
    ELSE IF averaging_kernel.data_type # "double"
         THEN "invalid data type for averaging kernel"
    ELSE IF \/ num_dimensions(averaging_kernel) # 3
            \/ averaging_kernel.dimension_type[1] # "time"
            \/ averaging_kernel.dimension_type[2] # "vertical"
            \/ averaging_kernel.dimension_type[3] # "vertical"
         THEN "averaging kernel should have dimensions {time,vertical,vertical}"
    ELSE IF averaging_kernel.dimension[2] # averaging_kernel.dimension[3]
         THEN "vertical dimensions of averaging kernel do not match"
    ELSE IF \/ variable.dimension[1] # averaging_kernel.dimension[1]
            \/ variable.dimension[num_dimensions(variable)]
                   # averaging_kernel.dimension[2]
         THEN "variable and avk have inconsistent dimensions"
    ELSE IF ~IsNull(apriori) /\ apriori.data_type # "double"
         THEN "invalid data type for apriori"
    ELSE IF ~IsNull(apriori) /\
            (\/ num_dimensions(apriori) # 2
             \/ apriori.dimension_type[1] # "time"
             \/ apriori.dimension_type[2] # "vertical")
         THEN "apriori should have dimensions {time,vertical}"
    ELSE IF ~IsNull(apriori) /\
            (\/ apriori.dimension[1] # averaging_kernel.dimension[1]
             \/ apriori.dimension[2] # averaging_kernel.dimension[2])
         THEN "apriori and avk have inconsistent dimensions"
    ELSE IF ~IsNull(vertical_axis) /\ vertical_axis.data_type # "double"
         THEN "invalid data type for axis variable"
    ELSE IF ~IsNull(vertical_axis) /\
            (\/ num_dimensions(vertical_axis) # 2
             \/ vertical_axis.dimension_type[1] # "time"
             \/ vertical_axis.dimension_type[2] # "vertical")
         THEN "axis variable should have dimensions {time,vertical}"
    ELSE IF ~IsNull(vertical_axis) /\
            (\/ vertical_axis.dimension[1] # averaging_kernel.dimension[1]
             \/ vertical_axis.dimension[2] # averaging_kernel.dimension[2])
         THEN "axis variable and avk have inconsistent dimensions"
    ELSE "ok"

\* Sum over j = from .. n-1 of avk[avk_offset + j] * vector[j], over the j
\* whose vector[j] is not NaN, added to acc in the order of the loop.
RECURSIVE avk_times_vector(_, _, _, _, _, _)
avk_times_vector(acc, avk, avk_offset, vector, from, n) ==
    IF from >= n THEN acc
    ELSE avk_times_vector(
             IF harp_isnan(At(vector, from)) THEN acc
             ELSE Add(acc, Mul(At(avk, avk_offset + from), At(vector, from))),
             avk, avk_offset, vector, from + 1, n)

\* num_vertical_elements of time row k: max_vertical_elements, or the
\* unpadded length of row k of the vertical axis
num_vertical_elements(vertical_axis, max_vertical_elements, k) ==
    IF IsNull(vertical_axis) THEN max_vertical_elements
    ELSE get_unpadded_vector_length(vertical_axis.data,
             k * max_vertical_elements, max_vertical_elements)

\* The buffer after the numeric loops (lines 1037-1103); the inputs have
\* passed the validation.
smooth_vertical_data(variable, vertical_axis, averaging_kernel, apriori) ==
    LET max_vertical_elements == averaging_kernel.dimension[2]
        num_blocks == (num_elements(variable) \div variable.dimension[1])
                          \div max_vertical_elements
        x == variable.data
        nve(k) == num_vertical_elements(vertical_axis,
                                        max_vertical_elements, k)
        \* vector[] of block (k, l): the profile minus the apriori
        vector(k, l) ==
            [jj \in 1..nve(k) |->
                LET xj == At(x, (k * num_blocks + l) * max_vertical_elements
                                    + (jj - 1))
                IN  IF IsNull(apriori) THEN xj
                    ELSE Sub(xj, At(apriori.data,
                                    k * max_vertical_elements + (jj - 1)))]
        new(k, l, ii) ==
            LET vec == vector(k, l)
                n == nve(k)
                avk_offset == (k * max_vertical_elements + ii)
                                  * max_vertical_elements
                num_valid == Cardinality({jj \in 1..n : ~harp_isnan(vec[jj])})
                sum == avk_times_vector(Num(0), averaging_kernel.data,
                                        avk_offset, vec, 0, n)
            IN  IF ~IsNull(apriori)
                THEN Add(sum, At(apriori.data, k * max_vertical_elements + ii))
                ELSE IF num_valid = 0 THEN NaN ELSE sum
    IN  [e \in 1..Len(x) |->
            LET block == (e - 1) \div max_vertical_elements
                ii == (e - 1) % max_vertical_elements
                k == block \div num_blocks
                l == block % num_blocks
            IN  IF ii < nve(k) /\
                   ~harp_isnan(vector(k, l)[ii + 1])
                THEN new(k, l, ii)
                ELSE x[e]]

\* harp_variable_smooth_vertical without the test of apriori->data_type
smooth_vertical_apriori_type_unchecked(variable, vertical_axis, averaging_kernel, apriori, malloc_ok) ==
    IF smooth_vertical_check(variable, vertical_axis, averaging_kernel,
           IF IsNull(apriori) THEN apriori
           ELSE [apriori EXCEPT !.data_type = "double"]) # "ok"
    THEN [rc |-> -1, data |-> variable.data]
    ELSE IF ~malloc_ok
    THEN [rc |-> -1, data |-> variable.data]
    ELSE [rc |-> 0,
          data |-> smooth_vertical_data(variable, vertical_axis,
                                        averaging_kernel, apriori)]

\* harp_variable_smooth_vertical: the return value and the variable's buffer
harp_variable_smooth_vertical(variable, vertical_axis, averaging_kernel, apriori, malloc_ok) ==
    IF smooth_vertical_check(variable, vertical_axis, averaging_kernel,
                             apriori) # "ok"
    THEN [rc |-> -1, data |-> variable.data]
    ELSE IF ~malloc_ok
    THEN [rc |-> -1, data |-> variable.data]
    ELSE [rc |-> 0,
          data |-> smooth_vertical_data(variable, vertical_axis,
                                        averaging_kernel, apriori)]

-----------------------------------------------------------------------------
(* Bounds *)

\* collocation_index values are 1..MaxIndex: the most time rows of a product
\* and the most pairs of a collocation result
MaxIndex == 2
\* dataset_b->num_products
NumProductsB == 2
\* extent of the vertical dimension of the collocated grid
GridLevels == 2

-----------------------------------------------------------------------------
(* Names *)

CI == <<"collocation_index">>
O3 == <<"O3">>
NO2 == <<"NO2">>
TEMPERATURE == <<"temperature">>
LATITUDE == <<"latitude">>
\* the vertical_axis argument
vertical_axis == <<"pressure">>
\* snprintf(vertical_bounds_name, MAX_NAME_LENGTH, "%s_bounds", vertical_axis)
vertical_bounds_name == vertical_axis \o <<"_bounds">>
\* snprintf(avk_name, MAX_NAME_LENGTH, "%s_avk", name)
avk_name(name) == name \o <<"_avk">>
\* snprintf(apriori_name, MAX_NAME_LENGTH, "%s_apriori", name)
apriori_name(name) == name \o <<"_apriori">>
\* strstr(name, piece) != NULL
strstr(name, piece) == \E k \in 1..Len(name) : name[k] = piece

Range(s) == {s[k] : k \in 1..Len(s)}

-----------------------------------------------------------------------------
(* Entry points and their inputs *)

SmoothVariants == {"smooth_vertical_with_collocated_product",
                   "smooth_vertical_with_collocated_dataset"}
ColumnVariants == {"get_smoothed_column_using_collocated_product",
                   "get_smoothed_column_using_collocated_dataset"}
ProductVariants == {"smooth_vertical_with_collocated_product",
                    "get_smoothed_column_using_collocated_product"}
DatasetVariants == {"smooth_vertical_with_collocated_dataset",
                    "get_smoothed_column_using_collocated_dataset"}
EntryPoints == SmoothVariants \cup ColumnVariants

\* smooth_variables of the profile variants; the column variants name one
\* variable
SmoothLists == {<<O3>>, <<O3, NO2>>}
ColumnDimensionLists == {<<>>, <<"time">>, <<"latitude">>}

\* the permutations of 1..n
Perms(n) == {s \in [1..n -> 1..n] : \A a, b \in 1..n : s[a] = s[b] => a = b}
\* values of a collocation_index variable: unique, in any order
IndexLists == UNION {Perms(n) : n \in 0..MaxIndex}

\* A variable of the source product: how it is stored, and what has been
\* done to its buffer ("orig", then "regridded", then "smoothed").
SourceVariable(kind) == [kind |-> kind, version |-> "orig"]
PROFILE == "double{time,vertical}"
VariableKinds == {PROFILE, "float{time,vertical}", "double{time}"}
VerticalDependent(v) == v.kind \in {PROFILE, "float{time,vertical}"}

\* The source products: with or without a vertical dimension, with or
\* without NO2 (stored in one of the kinds), with or without a
\* collocation_index variable.
SourceProduct(vertical, no2, index) ==
    [vertical |-> vertical,
     variables |->
        [n \in {O3, TEMPERATURE, LATITUDE}
               \cup (IF no2 = "absent" THEN {} ELSE {NO2})
               \cup (IF index = <<0>> THEN {} ELSE {CI}) |->
            IF n = NO2 THEN SourceVariable(no2)
            ELSE IF n = LATITUDE THEN SourceVariable("double{time}")
            ELSE IF n = CI THEN SourceVariable("int32{time}")
            ELSE SourceVariable(PROFILE)],
     index |-> IF index = <<0>> THEN <<>> ELSE index]

SourceProducts ==
    {SourceProduct(v, n, x) : v \in {"own", "none"},
                              n \in VariableKinds \cup {"absent"},
                              x \in IndexLists \cup {<<0>>}}

has_variable(p, name) == name \in DOMAIN p.variables

\* A time row of a product of dataset B: the pair it belongs to and the
\* product it was read from (0: the caller's collocated product).  The row's
\* grid, AVK and apriori are those of that pair.
Row(ci, src) == [ci |-> ci, src |-> src]

\* The caller's collocated product: its time rows
CollocatedProducts ==
    {[rows |-> [k \in 1..Len(x) |-> Row(x[k], 0)]] : x \in IndexLists}

\* A collocation result: pairs (collocation index, product of dataset B)
Pair(ci, b) == [ci |-> ci, b |-> b]
CollocationResults ==
    UNION {{{Pair(c, f[c]) : c \in 1..m} : f \in [1..m -> 1..NumProductsB]}
           : m \in 0..MaxIndex}

\* A temporary product: its handle (<<>>: NULL), its variables and its rows
NoProduct == [handle |-> <<>>, vars |-> {}, rows |-> <<>>]
TempProduct(handle, vs, rows) == [handle |-> handle, vars |-> vs, rows |-> rows]
H_temp == <<"temp_product">>
H_regrid == <<"regrid_product">>
H_filtered == <<"filtered_collocation_result">>
H_b(k) == <<"collocated_product", k>>

\* Variables a product of dataset B can hold when it is imported
H2O_AVK == <<"H2O", "_avk">>
BVariableSets == {{CI, TEMPERATURE},
                  {CI, TEMPERATURE, H2O_AVK, apriori_name(O3)}}

-----------------------------------------------------------------------------
(* The container and collocation layer, as the specification describes it *)

\* harp_product_filter_by_index(p, "collocation_index", n, index) can succeed
\* when every index value is one of the product's rows
filter_by_index_possible(p, index) ==
    /\ CI \in p.vars
    /\ \A k \in 1..Len(index) : \E r \in 1..Len(p.rows) : p.rows[r].ci = index[k]

\* ... and row k of the result is then the row whose index is index[k]
filter_by_index(p, index) ==
    [p EXCEPT !.rows =
        [k \in 1..Len(index) |->
            p.rows[CHOOSE r \in 1..Len(p.rows) : p.rows[r].ci = index[k]]]]

\* harp_product_regrid_with_axis_variable on the source product: the vertical
\* dimension becomes that of the grid, every variable that depends on the
\* vertical dimension is resampled
regrid_with_axis_variable(p) ==
    [p EXCEPT !.vertical = "collocated",
              !.variables = [n \in DOMAIN @ |->
                  IF VerticalDependent(@[n])
                  THEN [@[n] EXCEPT !.version = "regridded"]
                  ELSE @[n]]]

\* harp_collocation_result_filter_for_collocation_indices: the pairs whose
\* collocation index is one of the given values
filter_for_collocation_indices(pairs, index) ==
    {p \in pairs : p.ci \in Range(index)}

\* the rows harp_collocation_result_get_filtered_product_b reads from product
\* b: those of the pairs of the filtered result, in the order of the file
RECURSIVE rows_of_b(_, _, _)
rows_of_b(pairs, b, from) ==
    IF from > MaxIndex THEN <<>>
    ELSE (IF Pair(from, b) \in pairs THEN <<Row(from, b)>> ELSE <<>>)
             \o rows_of_b(pairs, b, from + 1)

-----------------------------------------------------------------------------
(* The orchestrator: initial state *)

NoTrace ==
    [err |-> "", failed_at |-> "", derive_failed |-> {}, fetched |-> 0,
     skipped |-> 0, survivors |-> 0, last_fetch |-> "", filter_ok |-> FALSE,
     loop_done |-> FALSE, realigned |-> FALSE, smoothed |-> <<>>]

OrchIdle ==
    /\ fn = "none" /\ pc = "idle"
    /\ product = SourceProduct("own", "absent", <<>>)
    /\ entry = [product |-> product, collocation_result |-> {}]
    /\ smooth_variables = <<>> /\ dimension_type = <<>>
    /\ collocated = [rows |-> <<>>] /\ collocation_result = {}
    /\ filtered = {} /\ temp = NoProduct /\ cur = NoProduct
    /\ regrid = NoProduct /\ live = {} /\ i = 0 /\ j = 0 /\ rc = 0 /\ out = 0
    /\ trace = NoTrace

SmoothIdle ==
    /\ sv_args = [variable |-> NULL, vertical_axis |-> NULL,
                  averaging_kernel |-> NULL, apriori |-> NULL,
                  malloc_ok |-> TRUE]
    /\ sv_buffer = <<>> /\ sv_rc = 0 /\ sv_pc = "idle" /\ sv_levels = <<>>

ProfileIdle ==
    /\ pf_fn = "none" /\ pf_args = <<>> /\ pf_result = <<>> /\ pf_pc = "idle"

NoCall == [name |-> "none", result |-> <<>>]

GribIdle ==
    /\ grib_product = <<>> /\ grib_info = <<>> /\ grib_i = 0
    /\ grib_parameter_index = 0 /\ grib_datetime_initialised = FALSE
    /\ grib_pc = "idle" /\ grib_error = "" /\ grib_call = NoCall

Init ==
    /\ fn \in EntryPoints
    /\ pc = "entry"
    /\ product \in SourceProducts
    /\ smooth_variables \in
           (IF fn \in ColumnVariants THEN {<<O3>>} ELSE SmoothLists)
    /\ dimension_type \in
           (IF fn \in ColumnVariants THEN ColumnDimensionLists
            ELSE {<<"time">>})
    /\ collocated \in
           (IF fn \in ProductVariants THEN CollocatedProducts
            ELSE {[rows |-> <<>>]})
    /\ collocation_result \in
           (IF fn \in DatasetVariants THEN CollocationResults ELSE {{}})
    /\ entry = [product |-> product, collocation_result |-> collocation_result]
    /\ filtered = {} /\ temp = NoProduct /\ cur = NoProduct
    /\ regrid = NoProduct /\ live = {} /\ i = 0 /\ j = 0 /\ rc = 0 /\ out = 0
    /\ trace = NoTrace
    /\ SmoothIdle
    /\ ProfileIdle
    /\ GribIdle

-----------------------------------------------------------------------------
(* The orchestrator: helpers of the actions *)

\* return code: pc, rc, the temporaries deleted on the way out, the history
Return(code, msg, deleted, tr) ==
    /\ pc' = "done"
    /\ rc' = code
    /\ live' = live \ deleted
    /\ trace' = [tr EXCEPT !.err = msg,
                           !.failed_at = IF code = 0 THEN "" ELSE pc]

DeriveFailed(name) == [trace EXCEPT !.derive_failed = @ \cup {name}]

\* what the error returns after the temporary product exists delete:
\* temp_product, or merged_product and the filtered collocation result.
\* harp_product_delete(NULL) does nothing.
Temporaries ==
    IF fn \in ProductVariants THEN {H_temp} ELSE {temp.handle, H_filtered}
\* ... and inside the loop over dataset B also collocated_product
LoopTemporaries == {cur.handle, temp.handle, H_filtered}

\* where the derivation of the AVK and apriori of variable j continues
AfterApriori ==
    IF j < Len(smooth_variables)
    THEN /\ j' = j + 1
         /\ pc' = "derive_avk"
    ELSE /\ j' = j
         /\ pc' = IF fn \in ProductVariants THEN "get_index" ELSE "strip"

\* harp_product_get_derived_variable from the collocated product, then
\* harp_product_add_variable to temp_product (product variants)
DeriveIntoTemp(name, required, continue) ==
    \/ \* the variable cannot be derived
       IF required
       THEN /\ Return(-1, "not derivable", {H_temp}, DeriveFailed(name))
            /\ UNCHANGED <<temp, j>>
       ELSE /\ continue
            /\ trace' = DeriveFailed(name)
            /\ UNCHANGED <<temp, rc, live>>
    \/ \* derived, but harp_product_add_variable fails
       /\ Return(-1, "add variable", {H_temp}, trace)
       /\ UNCHANGED <<temp, j>>
    \/ \* derived and added
       /\ temp' = [temp EXCEPT !.vars = @ \cup {name},
                               !.rows = collocated.rows]
       /\ continue
       /\ UNCHANGED <<rc, live, trace>>

\* harp_product_add_derived_variable on collocated_product (dataset variants)
AddDerived(name, required, continue) ==
    \/ \* the variable cannot be derived: the product is left as it was
       IF required
       THEN /\ Return(-1, "not derivable", LoopTemporaries, DeriveFailed(name))
            /\ UNCHANGED <<cur, j>>
       ELSE /\ continue
            /\ trace' = DeriveFailed(name)
            /\ UNCHANGED <<cur, rc, live>>
    \/ \* derived: the product now holds the variable
       /\ cur' = [cur EXCEPT !.vars = @ \cup {name}]
       /\ continue
       /\ UNCHANGED <<rc, live, trace>>

GoTo(next) == pc' = next /\ j' = j

-----------------------------------------------------------------------------
(* The orchestrator: one action per step of the code *)

\* The argument checks at the top of the four entry points
EntryChecks ==
    /\ pc = "entry"
    /\ IF fn \in ColumnVariants /\
          (Len(dimension_type) = 0 \/ dimension_type[1] # "time")
       THEN Return(-1, "first dimension should be the time dimension", {}, trace)
       ELSE IF product.vertical = "none"
       THEN Return(-1, "product has no vertical dimension", {}, trace)
       ELSE IF fn \in SmoothVariants /\
               \E k \in 1..Len(smooth_variables) :
                   ~has_variable(product, smooth_variables[k])
       THEN Return(-1, "product has no variable named", {}, trace)
       ELSE /\ pc' = IF fn \in ProductVariants THEN "new_temp" ELSE "get_index"
            /\ UNCHANGED <<rc, live, trace>>
    /\ UNCHANGED <<fn, product, entry, smooth_variables, collocated,
                   collocation_result, filtered, temp, cur, regrid,
                   dimension_type, i, j, out, smooth_vars,
                   profile_vars, grib_vars>>

\* harp_product_new(&temp_product)
NewTempProduct ==
    /\ pc = "new_temp"
    /\ \/ /\ Return(-1, "out of memory", {}, trace)
          /\ UNCHANGED temp
       \/ /\ temp' = TempProduct(H_temp, {}, <<>>)
          /\ live' = live \cup {H_temp}
          /\ pc' = "derive_index"
          /\ UNCHANGED <<rc, trace>>
    /\ UNCHANGED <<fn, product, entry, smooth_variables, collocated,
                   collocation_result, filtered, cur, regrid, dimension_type,
                   i, j, out, smooth_vars,
                   profile_vars, grib_vars>>

\* collocation_index of the collocated product into temp_product
DeriveCollocationIndex ==
    /\ pc = "derive_index"
    /\ DeriveIntoTemp(CI, TRUE, GoTo("derive_grid"))
    /\ UNCHANGED <<fn, product, entry, smooth_variables, collocated,
                   collocation_result, filtered, cur, regrid, dimension_type,
                   i, out, smooth_vars,
                   profile_vars, grib_vars>>

\* the vertical grid: into temp_product, or onto collocated_product
DeriveVerticalGrid ==
    /\ pc = "derive_grid"
    /\ IF fn \in ProductVariants
       THEN /\ DeriveIntoTemp(vertical_axis, TRUE, GoTo("derive_bounds"))
            /\ UNCHANGED cur
       ELSE /\ AddDerived(vertical_axis, TRUE, GoTo("derive_bounds"))
            /\ UNCHANGED temp
    /\ UNCHANGED <<fn, product, entry, smooth_variables, collocated,
                   collocation_result, filtered, regrid, dimension_type,
                   i, out, smooth_vars,
                   profile_vars, grib_vars>>

\* the vertical grid bounds
DeriveVerticalBounds ==
    /\ pc = "derive_bounds"
    /\ IF fn \in ProductVariants
       THEN /\ DeriveIntoTemp(vertical_bounds_name, TRUE,
                              pc' = "derive_avk" /\ j' = 1)
            /\ UNCHANGED cur
       ELSE /\ AddDerived(vertical_bounds_name, TRUE,
                          pc' = "derive_avk" /\ j' = 1)
            /\ UNCHANGED temp
    /\ UNCHANGED <<fn, product, entry, smooth_variables, collocated,
                   collocation_result, filtered, regrid, dimension_type,
                   i, out, smooth_vars,
                   profile_vars, grib_vars>>

\* "<name>_avk" of smooth variable j (the column AVK in the column variants)
DeriveAvk ==
    /\ pc = "derive_avk"
    /\ IF fn \in ProductVariants
       THEN /\ DeriveIntoTemp(avk_name(smooth_variables[j]), TRUE,
                              GoTo("derive_apriori"))
            /\ UNCHANGED cur
       ELSE /\ AddDerived(avk_name(smooth_variables[j]), TRUE,
                          GoTo("derive_apriori"))
            /\ UNCHANGED temp
    /\ UNCHANGED <<fn, product, entry, smooth_variables, collocated,
                   collocation_result, filtered, regrid, dimension_type,
                   i, out, smooth_vars,
                   profile_vars, grib_vars>>

\* "<name>_apriori" of smooth variable j: a failure to derive it is ignored
DeriveApriori ==
    /\ pc = "derive_apriori"
    /\ IF fn \in ProductVariants
       THEN /\ DeriveIntoTemp(apriori_name(smooth_variables[j]), FALSE,
                              AfterApriori)
            /\ UNCHANGED cur
       ELSE /\ AddDerived(apriori_name(smooth_variables[j]), FALSE,
                          AfterApriori)
            /\ UNCHANGED temp
    /\ UNCHANGED <<fn, product, entry, smooth_variables, collocated,
                   collocation_result, filtered, regrid, dimension_type,
                   i, out, smooth_vars,
                   profile_vars, grib_vars>>

\* harp_product_get_variable_by_name(product, "collocation_index", ...):
\* after the derivations in the product variants, before the shallow copy in
\* the dataset variants
GetCollocationIndex ==
    /\ pc = "get_index"
    /\ IF ~has_variable(product, CI)
       THEN Return(-1, "product has no collocation_index", {}, trace)
       ELSE /\ pc' = IF fn \in ProductVariants THEN "realign"
                     ELSE "shallow_copy"
            /\ UNCHANGED <<rc, live, trace>>
    /\ UNCHANGED <<fn, product, entry, smooth_variables, collocated,
                   collocation_result, filtered, temp, cur, regrid,
                   dimension_type, i, j, out, smooth_vars,
                   profile_vars, grib_vars>>

\* harp_collocation_result_shallow_copy
ShallowCopy ==
    /\ pc = "shallow_copy"
    /\ \/ /\ Return(-1, "out of memory", {}, trace)
          /\ UNCHANGED filtered
       \/ /\ filtered' = collocation_result
          /\ live' = live \cup {H_filtered}
          /\ pc' = "filter_pairs"
          /\ UNCHANGED <<rc, trace>>
    /\ UNCHANGED <<fn, product, entry, smooth_variables, collocated,
                   collocation_result, temp, cur, regrid, dimension_type,
                   i, j, out, smooth_vars,
                   profile_vars, grib_vars>>

\* the comparison with > in place of !=
pairs_inconsistent_more_only(pairs, index) == Cardinality(pairs) > Len(index)

\* filtered_collocation_result->num_pairs != collocation_index->num_elements
pairs_inconsistent(pairs, index) == Cardinality(pairs) # Len(index)

\* harp_collocation_result_filter_for_collocation_indices on the copy, and
\* the comparison of the number of pairs left with the number of rows
FilterPairs ==
    /\ pc = "filter_pairs"
    /\ \/ /\ Return(-1, "filter failed", {H_filtered}, trace)
          /\ UNCHANGED <<filtered, i>>
       \/ LET left == filter_for_collocation_indices(filtered, product.index)
          IN  /\ filtered' = left
              /\ IF pairs_inconsistent(left, product.index)
                 THEN /\ Return(-1,
                             "product and collocation result are inconsistent",
                             {H_filtered}, [trace EXCEPT !.filter_ok = TRUE])
                      /\ i' = i
                 ELSE /\ pc' = "fetch"
                      /\ i' = 1
                      /\ trace' = [trace EXCEPT !.filter_ok = TRUE]
                      /\ UNCHANGED <<rc, live>>
    /\ UNCHANGED <<fn, product, entry, smooth_variables, collocated,
                   collocation_result, temp, cur, regrid, dimension_type,
                   j, out, smooth_vars,
                   profile_vars, grib_vars>>

\* harp_product_is_empty
harp_product_is_empty(p) == p.vars = {} \/ p.rows = <<>>

\* the test without harp_product_is_empty
is_skipped_null_only(p) == p.handle = <<>>

\* collocated_product == NULL || harp_product_is_empty(collocated_product)
is_skipped(p) == p.handle = <<>> \/ harp_product_is_empty(p)

\* What harp_collocation_result_get_filtered_product_b can hand back for
\* product k of dataset B: no product, an empty product, or the product with
\* the rows of its pairs
FilteredProductsB(k) ==
    {NoProduct, TempProduct(H_b(k), {}, <<>>)}
        \cup {TempProduct(H_b(k), vs, rows_of_b(filtered, k, 1)) :
                  vs \in IF rows_of_b(filtered, k, 1) = <<>> THEN {}
                         ELSE BVariableSets}

\* the end of one iteration of the loop over dataset B
NextProductB ==
    /\ i' = i + 1
    /\ pc' = IF i + 1 > NumProductsB THEN "check_merged" ELSE "fetch"

\* harp_collocation_result_get_filtered_product_b and the test that skips a
\* missing or empty product
FetchProductB ==
    /\ pc = "fetch"
    /\ \/ /\ Return(-1, "import failed", {temp.handle, H_filtered},
                    [trace EXCEPT !.fetched = @ + 1, !.last_fetch = "error"])
          /\ UNCHANGED <<cur, i>>
       \/ \E p \in FilteredProductsB(i) :
             IF is_skipped(p)
             THEN /\ NextProductB
                  /\ live' = live \cup (IF p.handle = <<>> THEN {}
                                        ELSE {p.handle})
                  /\ trace' = [trace EXCEPT
                         !.fetched = @ + 1, !.skipped = @ + 1,
                         !.last_fetch = IF p.handle = <<>> THEN "null"
                                        ELSE "empty"]
                  /\ UNCHANGED <<cur, rc>>
             ELSE /\ cur' = p
                  /\ live' = live \cup {p.handle}
                  /\ pc' = "derive_grid"
                  /\ trace' = [trace EXCEPT !.fetched = @ + 1,
                                            !.last_fetch = "product"]
                  /\ UNCHANGED <<i, rc>>
    /\ UNCHANGED <<fn, product, entry, smooth_variables, collocated,
                   collocation_result, filtered, temp, regrid, dimension_type,
                   j, out, smooth_vars,
                   profile_vars, grib_vars>>

\* The test of the stripping loop: the variable is kept.  The profile
\* variant searches the name for "_avk" and "_apriori", the column variant
\* compares it with the two names.
strip_keeps(name) ==
    \/ name = CI
    \/ name = vertical_axis
    \/ name = vertical_bounds_name
    \/ IF fn \in SmoothVariants
       THEN strstr(name, "_avk") \/ strstr(name, "_apriori")
       ELSE \/ name = avk_name(smooth_variables[1])
            \/ name = apriori_name(smooth_variables[1])

\* "strip collocated product to the variables that we need"
StripProductB ==
    /\ pc = "strip"
    /\ \/ /\ \E n \in cur.vars : ~strip_keeps(n)
          /\ Return(-1, "remove variable", LoopTemporaries, trace)
          /\ UNCHANGED cur
       \/ /\ cur' = [cur EXCEPT !.vars = {n \in @ : strip_keeps(n)}]
          /\ pc' = "merge"
          /\ UNCHANGED <<rc, live, trace>>
    /\ UNCHANGED <<fn, product, entry, smooth_variables, collocated,
                   collocation_result, filtered, temp, regrid, dimension_type,
                   i, j, out, smooth_vars,
                   profile_vars, grib_vars>>

\* merged_product = collocated_product, or harp_product_append followed by
\* harp_product_delete(collocated_product)
MergeProductB ==
    /\ pc = "merge"
    /\ IF temp.handle = <<>>
       THEN /\ temp' = cur
            /\ cur' = NoProduct
            /\ NextProductB
            /\ trace' = [trace EXCEPT !.survivors = @ + 1]
            /\ UNCHANGED <<rc, live>>
       ELSE \/ /\ Return(-1, "append failed", LoopTemporaries, trace)
               /\ UNCHANGED <<temp, cur, i>>
            \/ /\ cur.vars = temp.vars
               /\ temp' = [temp EXCEPT !.rows = @ \o cur.rows]
               /\ live' = live \ {cur.handle}
               /\ cur' = NoProduct
               /\ NextProductB
               /\ trace' = [trace EXCEPT !.survivors = @ + 1]
               /\ UNCHANGED rc
    /\ UNCHANGED <<fn, product, entry, smooth_variables, collocated,
                   collocation_result, filtered, regrid, dimension_type,
                   j, out, smooth_vars,
                   profile_vars, grib_vars>>

\* if (merged_product == NULL): no product of dataset B was merged
CheckMerged ==
    /\ pc = "check_merged"
    /\ IF temp.handle = <<>>
       THEN Return(-1, "collocated dataset does not contain any matching pairs",
                   {H_filtered}, [trace EXCEPT !.loop_done = TRUE])
       ELSE /\ pc' = "realign"
            /\ trace' = [trace EXCEPT !.loop_done = TRUE]
            /\ UNCHANGED <<rc, live>>
    /\ UNCHANGED <<fn, product, entry, smooth_variables, collocated,
                   collocation_result, filtered, temp, cur, regrid,
                   dimension_type, i, j, out, smooth_vars,
                   profile_vars, grib_vars>>

\* the index values of the temporary product itself, in its own order
realign_index_of_temp == [k \in 1..Len(temp.rows) |-> temp.rows[k].ci]

\* the index values handed to harp_product_filter_by_index:
\* collocation_index->data.int32_data of the source product
realign_index == product.index

\* "sort/filter the (merged) product so the samples are in the same order as
\* in 'product'"
Realign ==
    /\ pc = "realign"
    /\ \/ /\ Return(-1, "filter by index failed", Temporaries, trace)
          /\ UNCHANGED temp
       \/ /\ filter_by_index_possible(temp, realign_index)
          /\ temp' = filter_by_index(temp, realign_index)
          /\ pc' = IF fn \in SmoothVariants THEN "regrid" ELSE "gsc_new"
          /\ trace' = [trace EXCEPT !.realigned = TRUE]
          /\ UNCHANGED <<rc, live>>
    /\ UNCHANGED <<fn, product, entry, smooth_variables, collocated,
                   collocation_result, filtered, cur, regrid, dimension_type,
                   i, j, out, smooth_vars,
                   profile_vars, grib_vars>>

\* harp_product_regrid_with_axis_variable(product, vertical_grid,
\* vertical_bounds): the caller's product is regridded as a whole
RegridSource ==
    /\ pc = "regrid"
    /\ \/ /\ Return(-1, "regrid failed", Temporaries, trace)
          /\ UNCHANGED <<product, i>>
       \/ /\ product' = regrid_with_axis_variable(product)
          /\ i' = 1
          /\ pc' = "smooth"
          /\ UNCHANGED <<rc, live, trace>>
    /\ UNCHANGED <<fn, entry, smooth_variables, collocated,
                   collocation_result, filtered, temp, cur, regrid,
                   dimension_type, j, out, smooth_vars,
                   profile_vars, grib_vars>>

\* The variables of the orchestrator as harp_variable_smooth_vertical sees
\* them: type, dimension kinds and extents (the buffers are not modelled
\* here).  A variable the temporary product does not hold is NULL.
SourceDescriptor(v, rows) ==
    IF v.kind = "double{time}"
    THEN Variable("double", <<"time">>, <<rows>>, <<>>)
    ELSE Variable(IF v.kind = PROFILE THEN "double" ELSE "float",
                  <<"time", "vertical">>, <<rows, GridLevels>>, <<>>)

TempDescriptor(name, dimtypes) ==
    IF name \in temp.vars
    THEN Variable("double", dimtypes,
                  [d \in 1..Len(dimtypes) |->
                      IF dimtypes[d] = "time" THEN Len(temp.rows)
                      ELSE GridLevels], <<>>)
    ELSE NULL

\* the apriori argument: the variable "<name>_apriori" of the temporary
\* product if harp_product_has_variable finds one, NULL otherwise
apriori_argument(name, dimtypes) ==
    TempDescriptor(apriori_name(name), dimtypes)

\* the first smooth variable, whatever the iteration
smooth_target_first == smooth_variables[1]

\* the variable smoothed by iteration i: smooth_variables[i]
smooth_target == smooth_variables[i]

\* One iteration of the smoothing loop: harp_variable_smooth_vertical on
\* smooth variable i with the grid, AVK and apriori of the temporary product
SmoothVariable ==
    /\ pc = "smooth"
    /\ \E malloc_ok \in BOOLEAN :
         LET name == smooth_target
             variable == SourceDescriptor(product.variables[name],
                                          Len(product.index))
             vertical_grid == TempDescriptor(vertical_axis,
                                             <<"time", "vertical">>)
             avk == TempDescriptor(avk_name(name),
                                   <<"time", "vertical", "vertical">>)
             apriori == apriori_argument(name, <<"time", "vertical">>)
             ok == /\ smooth_vertical_check(variable, vertical_grid, avk,
                                            apriori) = "ok"
                   /\ malloc_ok
             call == [name |-> name, apriori |-> ~IsNull(apriori),
                      rows |-> temp.rows]
         IN  IF ok
             THEN /\ product' = [product EXCEPT
                         !.variables[name].version = "smoothed"]
                  /\ trace' = [trace EXCEPT !.smoothed = Append(@, call)]
                  /\ IF i < Len(smooth_variables)
                     THEN i' = i + 1 /\ pc' = "smooth"
                     ELSE i' = i /\ pc' = "cleanup"
                  /\ UNCHANGED <<rc, live>>
             ELSE /\ Return(-1, "smoothing failed", Temporaries, trace)
                  /\ UNCHANGED <<product, i>>
    /\ UNCHANGED <<fn, entry, smooth_variables, collocated,
                   collocation_result, filtered, temp, cur, regrid,
                   dimension_type, j, out, smooth_vars,
                   profile_vars, grib_vars>>

\* The argument checks of harp_product_get_smoothed_column, in the order of
\* the code: the message of the first check that fails, or "ok"
smoothed_column_check(vertical, vertical_grid, column_avk, apriori) ==
    IF vertical = "none" THEN "product has no vertical dimension"
    ELSE IF \/ num_dimensions(vertical_grid) < 1
            \/ vertical_grid.dimension_type[num_dimensions(vertical_grid)]
                   # "vertical"
         THEN "vertical grid has invalid dimensions"
    ELSE IF vertical_grid.data_type # "double"
         THEN "invalid data type for vertical grid"
    ELSE IF \/ num_dimensions(column_avk) < 1
            \/ column_avk.dimension_type[num_dimensions(column_avk)]
                   # "vertical"
         THEN "column avk has invalid dimensions"
    ELSE IF column_avk.dimension[num_dimensions(column_avk)]
                # vertical_grid.dimension[num_dimensions(vertical_grid)]
         THEN "column avk and vertical grid have inconsistent dimensions"
    ELSE IF column_avk.data_type # "double"
         THEN "invalid data type for column avk"
    ELSE IF ~IsNull(apriori) /\ apriori.data_type # "double"
         THEN "invalid data type for apriori"
    ELSE IF ~IsNull(apriori) /\
            (\/ num_dimensions(apriori) # num_dimensions(column_avk)
             \/ apriori.dimension_type # column_avk.dimension_type
             \/ apriori.dimension # column_avk.dimension)
         THEN "apriori profile and column avk have inconsistent dimensions"
    ELSE "ok"

\* What the callers of harp_product_get_smoothed_column delete when it fails
ColumnFailure(msg) ==
    Return(-1, msg, Temporaries \cup {H_regrid}, trace)

\* harp_product_get_smoothed_column: the argument checks and
\* harp_product_new(&regrid_product)
ColumnNewProduct ==
    /\ pc = "gsc_new"
    /\ LET dims == dimension_type \o <<"vertical">>
           check == smoothed_column_check(product.vertical,
                        TempDescriptor(vertical_axis, <<"time", "vertical">>),
                        TempDescriptor(avk_name(smooth_variables[1]), dims),
                        apriori_argument(smooth_variables[1], dims))
       IN  IF check # "ok"
           THEN ColumnFailure(check) /\ UNCHANGED regrid
           ELSE \/ ColumnFailure("out of memory") /\ UNCHANGED regrid
                \/ /\ regrid' = TempProduct(H_regrid, {}, <<>>)
                   /\ live' = live \cup {H_regrid}
                   /\ pc' = "gsc_partcol"
                   /\ UNCHANGED <<rc, trace>>
    /\ UNCHANGED <<fn, product, entry, smooth_variables, collocated,
                   collocation_result, filtered, temp, cur, dimension_type,
                   i, j, out, smooth_vars,
                   profile_vars, grib_vars>>

\* the three variables derived from the source product and added to
\* regrid_product: the partial column profile, the source grid, its bounds
ColumnDerive ==
    /\ pc \in {"gsc_partcol", "gsc_grid", "gsc_bounds"}
    /\ \/ ColumnFailure("not derivable") /\ UNCHANGED regrid
       \/ ColumnFailure("add variable") /\ UNCHANGED regrid
       \/ /\ regrid' = [regrid EXCEPT !.vars = @ \cup {<<pc>>}]
          /\ pc' = CASE pc = "gsc_partcol" -> "gsc_grid"
                     [] pc = "gsc_grid" -> "gsc_bounds"
                     [] pc = "gsc_bounds" -> "gsc_regrid"
          /\ UNCHANGED <<rc, live, trace>>
    /\ UNCHANGED <<fn, product, entry, smooth_variables, collocated,
                   collocation_result, filtered, temp, cur, dimension_type,
                   i, j, out, smooth_vars,
                   profile_vars, grib_vars>>

\* harp_product_regrid_with_axis_variable(regrid_product, ...)
ColumnRegrid ==
    /\ pc = "gsc_regrid"
    /\ \/ ColumnFailure("regrid failed")
       \/ /\ pc' = "gsc_column"
          /\ UNCHANGED <<rc, live, trace>>
    /\ UNCHANGED <<fn, product, entry, smooth_variables, collocated,
                   collocation_result, filtered, temp, cur, regrid,
                   dimension_type, i, j, out, smooth_vars,
                   profile_vars, grib_vars>>

\* harp_variable_new, harp_variable_set_unit, the weighted sum, the deletion
\* of regrid_product and *variable = column_variable
ColumnVariable ==
    /\ pc = "gsc_column"
    /\ \/ ColumnFailure("out of memory") /\ UNCHANGED out
       \/ ColumnFailure("set unit") /\ UNCHANGED out
       \/ /\ out' = out + 1
          /\ live' = live \ {H_regrid}
          /\ pc' = "cleanup"
          /\ trace' = [trace EXCEPT !.smoothed = Append(@,
                 [name |-> smooth_variables[1],
                  apriori |-> ~IsNull(apriori_argument(smooth_variables[1],
                                  dimension_type \o <<"vertical">>)),
                  rows |-> temp.rows])]
          /\ UNCHANGED rc
    /\ UNCHANGED <<fn, product, entry, smooth_variables, collocated,
                   collocation_result, filtered, temp, cur, regrid,
                   dimension_type, i, j, smooth_vars,
                   profile_vars, grib_vars>>

\* the deletions before "return 0"
Cleanup ==
    /\ pc = "cleanup"
    /\ Return(0, "", Temporaries, trace)
    /\ UNCHANGED <<fn, product, entry, smooth_variables, collocated,
                   collocation_result, filtered, temp, cur, regrid,
                   dimension_type, i, j, out, smooth_vars,
                   profile_vars, grib_vars>>

Next ==
    \/ EntryChecks
    \/ NewTempProduct
    \/ DeriveCollocationIndex
    \/ DeriveVerticalGrid
    \/ DeriveVerticalBounds
    \/ DeriveAvk
    \/ DeriveApriori
    \/ GetCollocationIndex
    \/ ShallowCopy
    \/ FilterPairs
    \/ FetchProductB
    \/ StripProductB
    \/ MergeProductB
    \/ CheckMerged
    \/ Realign
    \/ RegridSource
    \/ SmoothVariable
    \/ ColumnNewProduct
    \/ ColumnDerive
    \/ ColumnRegrid
    \/ ColumnVariable
    \/ Cleanup

Spec == Init /\ [][Next]_vars

-----------------------------------------------------------------------------
(* Properties of the orchestrators, under Spec *)

Done == pc = "done"
Succeeded == Done /\ rc = 0
Failed == Done /\ rc = -1
NoMatch == "collocated dataset does not contain any matching pairs"
Inconsistent == "product and collocation result are inconsistent"

\* C1: when a product variant (harp_product_get_smoothed_column included)
\* has returned, with success or with an error, no temporary product it
\* created is left undeleted.
C1_TempProductsDeleted ==
    (Done /\ fn \in ProductVariants) => live = {}

\* C2: when a dataset variant has returned, every product of dataset B it
\* fetched, the merged product and the shallow copy of the collocation
\* result have been deleted, skipped iterations included.
C2_DatasetTemporariesDeleted ==
    (Done /\ fn \in DatasetVariants) => live = {}

\* C3: when a smooth variant returns an error the source product is as it
\* was on entry: no partial result.
C3_NoPartialResult ==
    (Failed /\ fn \in SmoothVariants) => product = entry.product

\* C4, as the specification states it: on success of a smooth variant only
\* the variables named in smooth_variables differ from their state on
\* entry, the other variables and the dimension sizes are unchanged; a
\* column function leaves the source product unchanged and returns exactly
\* one new variable.
C4_OnlySmoothVariablesChange ==
    /\ (Succeeded /\ fn \in SmoothVariants) =>
          /\ product.vertical = entry.product.vertical
          /\ product.index = entry.product.index
          /\ DOMAIN product.variables = DOMAIN entry.product.variables
          /\ \A n \in DOMAIN product.variables :
                n \notin Range(smooth_variables) =>
                    product.variables[n] = entry.product.variables[n]
    /\ (Succeeded /\ fn \in ColumnVariants) =>
          /\ product = entry.product
          /\ out = 1

\* C4, amended: on success of a smooth variant the source product has been
\* regridded as a whole onto the collocated vertical grid (its vertical
\* dimension is that of the grid and every variable that depends on the
\* vertical dimension is resampled), the variables named in
\* smooth_variables are in addition smoothed, and only the variables
\* without a vertical dimension are as on entry; a column function leaves
\* the source product unchanged and returns exactly one new variable.
C4_RegriddedAndSmoothed ==
    /\ (Succeeded /\ fn \in SmoothVariants) =>
          /\ product.vertical = "collocated"
          /\ product.index = entry.product.index
          /\ DOMAIN product.variables = DOMAIN entry.product.variables
          /\ \A n \in DOMAIN product.variables :
                /\ product.variables[n].kind = entry.product.variables[n].kind
                /\ product.variables[n].version =
                       IF n \in Range(smooth_variables) THEN "smoothed"
                       ELSE IF VerticalDependent(entry.product.variables[n])
                       THEN "regridded"
                       ELSE "orig"
    /\ (Succeeded /\ fn \in ColumnVariants) =>
          /\ product = entry.product
          /\ out = 1

\* a smooth variant has succeeded on two smooth variables next to a third
\* vertical profile
C4_Witness ==
    /\ Succeeded /\ fn \in SmoothVariants
    /\ smooth_variables = <<O3, NO2>>
    /\ product.variables[NO2].version = "smoothed"
    /\ product.variables[TEMPERATURE].version = "regridded"
    /\ product.variables[LATITUDE].version = "orig"

\* C5: in a dataset variant a product of dataset B that is NULL or empty is
\* skipped, not an error and never processed; the call fails with "no
\* matching pairs" exactly when the loop has ended with every product
\* skipped, and then nothing has been smoothed or returned.
C5_SkipAndNoMatch ==
    fn \in DatasetVariants =>
        /\ pc \in {"derive_grid", "derive_bounds", "derive_avk",
                   "derive_apriori", "strip", "merge"} =>
              /\ cur.handle # <<>>
              /\ cur.rows # <<>>
              /\ cur.vars # {}
        /\ trace.failed_at = "fetch" => trace.last_fetch = "error"
        /\ trace.err = NoMatch => (Failed /\ trace.loop_done)
        /\ trace.loop_done =>
              /\ trace.fetched = NumProductsB
              /\ trace.survivors = trace.fetched - trace.skipped
              /\ (trace.err = NoMatch) <=> (trace.skipped = NumProductsB)
              /\ trace.err = NoMatch =>
                    product = entry.product /\ out = 0 /\ trace.smoothed = <<>>

\* every product of dataset B was skipped, one of them because it was empty
C5_Witness ==
    /\ Done /\ trace.err = NoMatch
    /\ trace.skipped = NumProductsB
    /\ trace.last_fetch = "empty"
    /\ entry.collocation_result # {}

\* C6: in a dataset variant the pairs left after filtering are compared
\* with the rows of the source product; a mismatch is an error raised
\* before any product of dataset B is fetched and before the source product
\* is modified, and the caller's collocation result is never modified.
C6_InconsistentPairsRejected ==
    fn \in DatasetVariants =>
        /\ collocation_result = entry.collocation_result
        /\ LET left == {p \in entry.collocation_result :
                           \E k \in 1..Len(entry.product.index) :
                               entry.product.index[k] = p.ci}
           IN  (trace.filter_ok /\ Cardinality(left) # Len(entry.product.index))
                   => /\ Failed
                      /\ trace.err = Inconsistent
                      /\ trace.fetched = 0
                      /\ temp = NoProduct
                      /\ product = entry.product
                      /\ out = 0
        /\ trace.err = Inconsistent => trace.fetched = 0

\* the mismatch error on a collocation result that holds pairs
C6_Witness ==
    /\ Done /\ trace.err = Inconsistent
    /\ filtered # {}
    /\ collocation_result # {}

\* C7: after the realign step the temporary product has one time row per
\* row of the source product, row k being the row of the collocated data
\* whose collocation index is the k-th collocation_index value of the
\* source product; these are the rows every smoothing call works on.
C7_RowsAligned ==
    trace.realigned =>
        /\ Len(temp.rows) = Len(entry.product.index)
        /\ \A k \in 1..Len(temp.rows) :
              /\ temp.rows[k].ci = entry.product.index[k]
              /\ IF fn \in DatasetVariants
                 THEN Pair(temp.rows[k].ci, temp.rows[k].src)
                          \in entry.collocation_result
                 ELSE temp.rows[k] \in Range(collocated.rows)
        /\ \A c \in Range(trace.smoothed) : c.rows = temp.rows

\* rows merged from two products of dataset B in an order that differs from
\* the source product's, realigned and used for smoothing
C7_Witness ==
    /\ trace.realigned /\ fn \in DatasetVariants
    /\ Len(temp.rows) = 2
    /\ temp.rows[1].src > temp.rows[2].src
    /\ trace.smoothed # <<>>

\* C8: after the strip step of a dataset variant the product of dataset B
\* holds only collocation_index, the vertical axis, its bounds and the
\* requested <name>_avk and <name>_apriori variables.
C8_StrippedToNeeded ==
    (fn \in DatasetVariants /\ pc = "merge") =>
        cur.vars \subseteq
            {CI, vertical_axis, vertical_bounds_name}
                \cup {avk_name(n) : n \in Range(smooth_variables)}
                \cup {apriori_name(n) : n \in Range(smooth_variables)}

\* C9: in all four entry points a failure to derive an apriori is not an
\* error and the variable is then smoothed with the apriori absent; a
\* failure to derive the axis, its bounds or an averaging kernel is fatal.
C9_AprioriOptional ==
    /\ trace.failed_at = "derive_apriori" => trace.err # "not derivable"
    /\ \A c \in Range(trace.smoothed) :
          apriori_name(c.name) \in trace.derive_failed => ~c.apriori
    /\ (\E n \in trace.derive_failed : ~strstr(n, "_apriori")) => Failed

-----------------------------------------------------------------------------
(* harp_variable_smooth_vertical on its own: SpecSmooth *)

Types == {"double", "float"}
Extents == {1, 2}
VariableDimensionTypes ==
    {<<"time", "vertical">>, <<"time">>, <<"vertical", "time">>,
     <<"time", "latitude", "vertical">>}
AvkDimensionTypes ==
    {<<"time", "vertical", "vertical">>, <<"time", "vertical">>,
     <<"time", "vertical", "independent">>}
ProfileDimensionTypes ==
    {<<"time", "vertical">>, <<"time">>, <<"time", "independent">>}

Ramp(n) == [e \in 1..n |-> Num(e)]
Fill(n, d) == [e \in 1..n |-> d]

\* Inputs that differ in what they are: NULL, the data type, the dimension
\* kinds (every extent is 2)
KindInputs ==
    LET Two(dt) == [d \in 1..Len(dt) |-> 2]
        Vars(dts, ramp) ==
            {Variable(t, dt, Two(dt),
                      IF ramp THEN Ramp(Prod(Two(dt)))
                      ELSE Fill(Prod(Two(dt)), Num(1))) :
                 t \in Types, dt \in dts}
    IN  [variable : {NULL} \cup Vars(VariableDimensionTypes, TRUE),
         vertical_axis : {NULL} \cup Vars(ProfileDimensionTypes, TRUE),
         averaging_kernel : {NULL} \cup Vars(AvkDimensionTypes, FALSE),
         apriori : {NULL} \cup Vars(ProfileDimensionTypes, FALSE),
         malloc_ok : BOOLEAN]

\* Inputs of the right type and dimension kinds that differ in their extents
ExtentInputs ==
    LET Vars(dts, ramp) ==
            {Variable("double", dt, dims,
                      IF ramp THEN Ramp(Prod(dims))
                      ELSE Fill(Prod(dims), Num(1))) :
                 dt \in dts, dims \in UNION {[1..n -> Extents] : n \in 2..3}}
        Shaped(dts, ramp) ==
            {v \in Vars(dts, ramp) : Len(v.dimension) = Len(v.dimension_type)}
    IN  [variable : Shaped({<<"time", "vertical">>,
                            <<"time", "latitude", "vertical">>}, TRUE),
         vertical_axis : {NULL} \cup Shaped({<<"time", "vertical">>}, TRUE),
         averaging_kernel : Shaped({<<"time", "vertical", "vertical">>}, FALSE),
         apriori : {NULL} \cup Shaped({<<"time", "vertical">>}, FALSE),
         malloc_ok : BOOLEAN]

\* Valid inputs that differ in their data: extents [t, l, v] (l = 0: no
\* intermediate dimension), profiles with NaN, an identity or a full AVK
\* that differs from one time row to the next, an apriori that is absent,
\* zero, a ramp or a ramp with a NaN, an axis that is absent or padded
Shapes == {[t |-> 1, l |-> 0, v |-> 3], [t |-> 2, l |-> 0, v |-> 2],
           [t |-> 1, l |-> 2, v |-> 2], [t |-> 2, l |-> 2, v |-> 2]}
XValues == {NaN, Num(1), Num(3)}
AxisValues == {NaN, Num(1)}

\* rows r1, r2 laid out alternately over n rows of length v
Alternate(r1, r2, n, v) ==
    [e \in 1..(n * v) |->
        IF ((e - 1) \div v) % 2 = 0 THEN r1[((e - 1) % v) + 1]
        ELSE r2[((e - 1) % v) + 1]]

IdentityAvk(t, v) ==
    [e \in 1..(t * v * v) |->
        IF ((e - 1) \div v) % v = (e - 1) % v THEN Num(1) ELSE Num(0)]

NumericInputs ==
    UNION {
      LET blocks == IF s.l = 0 THEN 1 ELSE s.l
          AvkOf(data) == Variable("double", <<"time", "vertical", "vertical">>,
                                  <<s.t, s.v, s.v>>, data)
          Profile(data) == Variable("double", <<"time", "vertical">>,
                                    <<s.t, s.v>>, data)
      IN  [variable :
               {Variable("double",
                    IF s.l = 0 THEN <<"time", "vertical">>
                    ELSE <<"time", "latitude", "vertical">>,
                    IF s.l = 0 THEN <<s.t, s.v>> ELSE <<s.t, s.l, s.v>>,
                    Alternate(r1, r2, s.t * blocks, s.v)) :
                        r1 \in [1..s.v -> XValues], r2 \in [1..s.v -> XValues]},
           vertical_axis :
               {NULL} \cup
               {Profile(Alternate(a1, a2, s.t, s.v)) :
                    a1 \in [1..s.v -> AxisValues], a2 \in [1..s.v -> AxisValues]},
           averaging_kernel :
               {AvkOf(IdentityAvk(s.t, s.v)), AvkOf(Ramp(s.t * s.v * s.v))},
           apriori :
               {NULL, Profile(Fill(s.t * s.v, Num(0))),
                Profile(Ramp(s.t * s.v)),
                Profile([Ramp(s.t * s.v) EXCEPT ![2] = NaN])},
           malloc_ok : {TRUE}]
      : s \in Shapes}

SmoothInputs == KindInputs \cup ExtentInputs \cup NumericInputs

InitSmooth ==
    /\ sv_args \in SmoothInputs
    /\ sv_buffer = sv_args.variable.data
    /\ sv_rc = 0
    /\ sv_pc = "call"
    /\ sv_levels = <<>>
    /\ OrchIdle
    /\ ProfileIdle
    /\ GribIdle

\* the call of harp_variable_smooth_vertical
SmoothVertical ==
    /\ sv_pc = "call"
    /\ LET r == harp_variable_smooth_vertical(
                    [sv_args.variable EXCEPT !.data = sv_buffer],
                    sv_args.vertical_axis, sv_args.averaging_kernel,
                    sv_args.apriori, sv_args.malloc_ok)
       IN  /\ sv_buffer' = r.data
           /\ sv_rc' = r.rc
           /\ sv_levels' =
                  IF r.rc # 0 THEN <<>>
                  ELSE [k \in 1..sv_args.variable.dimension[1] |->
                           num_vertical_elements(sv_args.vertical_axis,
                               sv_args.averaging_kernel.dimension[2], k - 1)]
    /\ sv_pc' = "done"
    /\ UNCHANGED <<sv_args, orch_vars, profile_vars, grib_vars>>

NextSmooth == SmoothVertical

SpecSmooth == InitSmooth /\ [][NextSmooth]_vars

-----------------------------------------------------------------------------
(* Properties of harp_variable_smooth_vertical, under SpecSmooth *)

\* a {time,vertical} variable with the extents of the averaging kernel
AgreesWithAvk(v, avk) ==
    /\ v.dimension_type = <<"time", "vertical">>
    /\ v.dimension = <<avk.dimension[1], avk.dimension[2]>>

\* the violations: a NULL variable or AVK, an argument that is not double,
\* a variable that is not {time,...,vertical}, an AVK that is not
\* {time,vertical,vertical} with equal vertical extents, or extents of the
\* variable, the apriori or the axis that do not agree with the AVK's
StructurallyInvalid(a) ==
    \/ IsNull(a.variable)
    \/ IsNull(a.averaging_kernel)
    \/ \E v \in {a.variable, a.averaging_kernel, a.apriori, a.vertical_axis} :
          ~IsNull(v) /\ v.data_type # "double"
    \/ Len(a.variable.dimension_type) < 2
    \/ Head(a.variable.dimension_type) # "time"
    \/ a.variable.dimension_type[Len(a.variable.dimension_type)] # "vertical"
    \/ a.averaging_kernel.dimension_type # <<"time", "vertical", "vertical">>
    \/ a.averaging_kernel.dimension[2] # a.averaging_kernel.dimension[3]
    \/ Head(a.variable.dimension) # a.averaging_kernel.dimension[1]
    \/ a.variable.dimension[Len(a.variable.dimension)]
           # a.averaging_kernel.dimension[2]
    \/ ~IsNull(a.apriori) /\ ~AgreesWithAvk(a.apriori, a.averaging_kernel)
    \/ ~IsNull(a.vertical_axis)
           /\ ~AgreesWithAvk(a.vertical_axis, a.averaging_kernel)

\* C10: harp_variable_smooth_vertical validates before any numeric work: on
\* each of the violations it returns -1 and the variable's buffer is as it
\* was; when there is none and the allocation succeeds it returns 0.
C10_ValidatedBeforeNumericWork ==
    sv_pc = "done" =>
        /\ StructurallyInvalid(sv_args) =>
              sv_rc = -1 /\ sv_buffer = sv_args.variable.data
        /\ (~StructurallyInvalid(sv_args) /\ sv_args.malloc_ok) => sv_rc = 0
        /\ sv_rc = -1 => sv_buffer = sv_args.variable.data

\* the call is rejected for its apriori alone, on a buffer that smoothing
\* would have changed
C10_Witness ==
    /\ sv_pc = "done" /\ sv_rc = -1
    /\ sv_args.malloc_ok
    /\ ~IsNull(sv_args.apriori)
    /\ ~StructurallyInvalid([sv_args EXCEPT !.apriori = NULL])
    /\ smooth_vertical_data(sv_args.variable, sv_args.vertical_axis,
                            sv_args.averaging_kernel, NULL)
           # sv_args.variable.data

-----------------------------------------------------------------------------
(* The profile functions: SpecProfile *)

\* a * n / d in double arithmetic, for operands whose quotient is exact
Quot(a, n, d) ==
    IF harp_isnan(a) THEN NaN
    ELSE IF d < 0 THEN Num((0 - a[1] * n) \div (0 - d))
    ELSE Num((a[1] * n) \div d)

\* log(a / b) in units of log(2), for powers of two
RECURSIVE Log2(_)
Log2(x) == IF x <= 1 THEN 0 ELSE 1 + Log2(x \div 2)
LogRatio(a, b) == Log2(a) - Log2(b)

\* column and empty after the loop: the terms are what the levels added,
\* <<>> for a level that added nothing
RECURSIVE integrate(_, _, _)
integrate(terms, column, empty) ==
    IF terms = <<>> THEN (IF empty THEN NaN ELSE column)
    ELSE IF Head(terms) = <<>> THEN integrate(Tail(terms), column, empty)
    ELSE integrate(Tail(terms), Add(column, Head(terms)[1]), FALSE)

\* the loop body without the test that leaves NaN values out
column_term_with_nan(partial_column) == <<partial_column>>

\* the body of the loop of harp_profile_column_from_partial_column
column_term(partial_column) ==
    IF ~harp_isnan(partial_column) THEN <<partial_column>> ELSE <<>>

harp_profile_column_from_partial_column(num_levels, partial_column_profile) ==
    integrate([k \in 1..num_levels |-> column_term(partial_column_profile[k])],
              Num(0), TRUE)

\* altitude_bounds is a sequence of <<lower, upper>>
tropo_altitude_term(partial_column, bounds, tropopause_altitude) ==
    IF ~harp_isnan(partial_column) /\ bounds[1] < tropopause_altitude
    THEN IF bounds[2] <= tropopause_altitude
         THEN <<partial_column>>
         ELSE <<Quot(partial_column, tropopause_altitude - bounds[1],
                     bounds[2] - bounds[1])>>
    ELSE <<>>

harp_profile_tropo_column_from_partial_column_and_altitude(num_levels, partial_column_profile, altitude_bounds, tropopause_altitude) ==
    integrate([k \in 1..num_levels |->
                  tropo_altitude_term(partial_column_profile[k],
                      altitude_bounds[k], tropopause_altitude)],
              Num(0), TRUE)

strato_altitude_term(partial_column, bounds, tropopause_altitude) ==
    IF ~harp_isnan(partial_column) /\ bounds[2] > tropopause_altitude
    THEN IF bounds[1] >= tropopause_altitude
         THEN <<partial_column>>
         ELSE <<Quot(partial_column, tropopause_altitude - bounds[1],
                     bounds[2] - bounds[1])>>
    ELSE <<>>

harp_profile_strato_column_from_partial_column_and_altitude(num_levels, partial_column_profile, altitude_bounds, tropopause_altitude) ==
    integrate([k \in 1..num_levels |->
                  strato_altitude_term(partial_column_profile[k],
                      altitude_bounds[k], tropopause_altitude)],
              Num(0), TRUE)

tropo_pressure_term(partial_column, bounds, tropopause_pressure) ==
    IF ~harp_isnan(partial_column) /\ bounds[1] > tropopause_pressure
    THEN IF bounds[2] >= tropopause_pressure
         THEN <<partial_column>>
         ELSE <<Quot(partial_column, LogRatio(tropopause_pressure, bounds[1]),
                     LogRatio(bounds[2], bounds[1]))>>
    ELSE <<>>

harp_profile_tropo_column_from_partial_column_and_pressure(num_levels, partial_column_profile, pressure_bounds, tropopause_pressure) ==
    integrate([k \in 1..num_levels |->
                  tropo_pressure_term(partial_column_profile[k],
                      pressure_bounds[k], tropopause_pressure)],
              Num(0), TRUE)

strato_pressure_term(partial_column, bounds, tropopause_pressure) ==
    IF ~harp_isnan(partial_column) /\ bounds[2] < tropopause_pressure
    THEN IF bounds[1] <= tropopause_pressure
         THEN <<partial_column>>
         ELSE <<Quot(partial_column, LogRatio(tropopause_pressure, bounds[1]),
                     LogRatio(bounds[2], bounds[1]))>>
    ELSE <<>>

harp_profile_strato_column_from_partial_column_and_pressure(num_levels, partial_column_profile, pressure_bounds, tropopause_pressure) ==
    integrate([k \in 1..num_levels |->
                  strato_pressure_term(partial_column_profile[k],
                      pressure_bounds[k], tropopause_pressure)],
              Num(0), TRUE)

\* Units of the tropopause locator: altitude in m, pressure in Pa,
\* temperature in mK, lapse rate in uK/m. EPSILON lies far below the layers
\* of a profile; on the whole-number grids of the model it is 2, so that 1 is
\* a height that is below EPSILON and is not zero
EPSILON == 2
MaxTropopausePressure == 50000
MinTropopausePressure == 5000
MaxLapseRate == 2000
LookaheadHeight == 2000

\* comparisons of doubles: false when the operand is NaN
GreaterThan(d, n) == ~harp_isnan(d) /\ d[1] > n
AtMost(d, n) == ~harp_isnan(d) /\ d[1] <= n

\* (temperature_profile[lower] - temperature_profile[upper]) / height, for C
\* indices lower and upper
lapse_rate(altitude_profile, temperature_profile, lower, upper) ==
    Quot(Num(At(temperature_profile, lower) - At(temperature_profile, upper)),
         1000, At(altitude_profile, upper) - At(altitude_profile, lower))

\* the first loop left out: the scan starts at level 1
tropopause_first_level_unskipped(num_levels, pressure_profile, n) == n

\* while (i < num_levels - 1 && pressure_profile[i] > 50000) i++
RECURSIVE tropopause_first_level(_, _, _)
tropopause_first_level(num_levels, pressure_profile, n) ==
    IF n < num_levels - 1 /\ At(pressure_profile, n) > MaxTropopausePressure
    THEN tropopause_first_level(num_levels, pressure_profile, n + 1)
    ELSE n

\* the look-ahead loop that leaves out the layers of no height only
RECURSIVE tropopause_lookahead_zero_only(_, _, _, _, _, _, _)
tropopause_lookahead_zero_only(num_levels, altitude_profile, temperature_profile, n, k, lapse_sum, count) ==
    IF k < num_levels /\
       At(altitude_profile, k) <= At(altitude_profile, n) + LookaheadHeight
    THEN IF At(altitude_profile, k) - At(altitude_profile, k - 1) >= 1
         THEN tropopause_lookahead_zero_only(num_levels, altitude_profile,
                  temperature_profile, n, k + 1,
                  Add(lapse_sum, lapse_rate(altitude_profile,
                                            temperature_profile, k - 1, k)),
                  count + 1)
         ELSE tropopause_lookahead_zero_only(num_levels, altitude_profile,
                  temperature_profile, n, k + 1, lapse_sum, count)
    ELSE [lapse_sum |-> lapse_sum, count |-> count]

\* lapse_sum and count after the loop over the levels k within 2 km
RECURSIVE tropopause_lookahead(_, _, _, _, _, _, _)
tropopause_lookahead(num_levels, altitude_profile, temperature_profile, n, k, lapse_sum, count) ==
    IF k < num_levels /\
       At(altitude_profile, k) <= At(altitude_profile, n) + LookaheadHeight
    THEN IF At(altitude_profile, k) - At(altitude_profile, k - 1) >= EPSILON
         THEN tropopause_lookahead(num_levels, altitude_profile,
                  temperature_profile, n, k + 1,
                  Add(lapse_sum, lapse_rate(altitude_profile,
                                            temperature_profile, k - 1, k)),
                  count + 1)
         ELSE tropopause_lookahead(num_levels, altitude_profile,
                  temperature_profile, n, k + 1, lapse_sum, count)
    ELSE [lapse_sum |-> lapse_sum, count |-> count]

\* the test of the average lapse rate with < in place of <=
average_lapse_accepted_strict(ahead) ==
    ahead.count = 0 \/ AtMost(ahead.lapse_sum, MaxLapseRate * ahead.count - 1)

\* count == 0 || lapse_sum / count <= 0.002
average_lapse_accepted(ahead) ==
    ahead.count = 0 \/ AtMost(ahead.lapse_sum, MaxLapseRate * ahead.count)

\* the second while loop, from level n with the lapse rate below it
RECURSIVE tropopause_scan(_, _, _, _, _, _)
tropopause_scan(num_levels, altitude_profile, pressure_profile, temperature_profile, n, lapse_below) ==
    IF ~(n < num_levels - 1 /\ At(pressure_profile, n) > MinTropopausePressure)
    THEN -1
    ELSE LET height == At(altitude_profile, n + 1) - At(altitude_profile, n)
             lapse_above ==
                 IF height < EPSILON THEN lapse_below
                 ELSE lapse_rate(altitude_profile, temperature_profile,
                                 n, n + 1)
         IN  IF height < 0 THEN -1
             ELSE IF /\ GreaterThan(lapse_below, MaxLapseRate)
                     /\ AtMost(lapse_above, MaxLapseRate)
                     /\ average_lapse_accepted(
                            tropopause_lookahead(num_levels, altitude_profile,
                                temperature_profile, n, n + 2, Num(0), 0))
             THEN n
             ELSE tropopause_scan(num_levels, altitude_profile,
                      pressure_profile, temperature_profile, n + 1,
                      lapse_above)

\* The C indices at which the look-ahead loop from level n reads the
\* profiles: the test of the loop reads level k, the body levels k - 1 and k
RECURSIVE tropopause_lookahead_reads(_, _, _, _)
tropopause_lookahead_reads(num_levels, altitude_profile, n, k) ==
    IF k < num_levels
    THEN {k, n} \cup
         (IF At(altitude_profile, k)
                 <= At(altitude_profile, n) + LookaheadHeight
          THEN {k - 1} \cup tropopause_lookahead_reads(num_levels,
                                altitude_profile, n, k + 1)
          ELSE {})
    ELSE {}

\* the C indices read by the second while loop from level n on
RECURSIVE tropopause_scan_reads(_, _, _, _, _, _)
tropopause_scan_reads(num_levels, altitude_profile, pressure_profile, temperature_profile, n, lapse_below) ==
    IF ~(n < num_levels - 1) THEN {}
    ELSE IF ~(At(pressure_profile, n) > MinTropopausePressure) THEN {n}
    ELSE LET height == At(altitude_profile, n + 1) - At(altitude_profile, n)
             lapse_above ==
                 IF height < EPSILON THEN lapse_below
                 ELSE lapse_rate(altitude_profile, temperature_profile,
                                 n, n + 1)
             candidate == /\ GreaterThan(lapse_below, MaxLapseRate)
                          /\ AtMost(lapse_above, MaxLapseRate)
         IN  {n, n + 1} \cup
             (IF height < 0 THEN {}
              ELSE (IF candidate
                    THEN tropopause_lookahead_reads(num_levels,
                             altitude_profile, n, n + 2)
                    ELSE {})
                   \cup
                   (IF candidate /\ average_lapse_accepted(
                           tropopause_lookahead(num_levels, altitude_profile,
                               temperature_profile, n, n + 2, Num(0), 0))
                    THEN {}
                    ELSE tropopause_scan_reads(num_levels, altitude_profile,
                             pressure_profile, temperature_profile, n + 1,
                             lapse_above)))

\* the C indices read by the whole function: by the first loop up to the
\* level where it stops, by the first lapse rate, by the second loop
tropopause_reads(num_levels, altitude_profile, pressure_profile, temperature_profile) ==
    LET n == tropopause_first_level(num_levels, pressure_profile, 1)
    IN  {k \in 1..n : k < num_levels - 1} \cup
        (IF n >= num_levels - 1 THEN {}
         ELSE LET height == At(altitude_profile, n)
                                - At(altitude_profile, n - 1)
              IN  {n, n - 1} \cup
                  (IF height < 0 THEN {}
                   ELSE tropopause_scan_reads(num_levels, altitude_profile,
                            pressure_profile, temperature_profile, n,
                            IF height < EPSILON THEN NaN
                            ELSE lapse_rate(altitude_profile,
                                            temperature_profile, n - 1, n))))

harp_tropopause_index_from_altitude_and_temperature(num_levels, altitude_profile, pressure_profile, temperature_profile) ==
    LET n == tropopause_first_level(num_levels, pressure_profile, 1)
    IN  IF n >= num_levels - 1 THEN -1
        ELSE LET height == At(altitude_profile, n)
                               - At(altitude_profile, n - 1)
             IN  IF height < 0 THEN -1
                 ELSE tropopause_scan(num_levels, altitude_profile,
                          pressure_profile, temperature_profile, n,
                          IF height < EPSILON THEN NaN
                          ELSE lapse_rate(altitude_profile,
                                          temperature_profile, n - 1, n))

\* the element of level n of the tropospheric column kernel, with the test
\* made on the upper bound of the level
tropospheric_avk_element_by_upper(column_density_avk, altitude_bounds, tropopause_altitude, n) ==
    IF altitude_bounds[n + 1][2] < tropopause_altitude
    THEN At(column_density_avk, n)
    ELSE Num(0)

\* the body of the loop of
\* harp_profile_tropospheric_column_avk_from_column_avk
tropospheric_avk_element(column_density_avk, altitude_bounds, tropopause_altitude, n) ==
    IF altitude_bounds[n + 1][1] < tropopause_altitude
    THEN At(column_density_avk, n)
    ELSE Num(0)

harp_profile_tropospheric_column_avk_from_column_avk(num_levels, column_density_avk, altitude_bounds, tropopause_altitude) ==
    [k \in 1..num_levels |->
        tropospheric_avk_element(column_density_avk, altitude_bounds,
                                 tropopause_altitude, k - 1)]

harp_profile_stratospheric_column_avk_from_column_avk(num_levels, column_density_avk, altitude_bounds, tropopause_altitude) ==
    [k \in 1..num_levels |->
        IF altitude_bounds[k][2] <= tropopause_altitude
        THEN Num(0)
        ELSE column_density_avk[k]]

\* fabs(altitude_bounds[n * 2 + 1] - altitude_bounds[n * 2])
layer_height(altitude_bounds, n) ==
    IF altitude_bounds[n + 1][2] >= altitude_bounds[n + 1][1]
    THEN altitude_bounds[n + 1][2] - altitude_bounds[n + 1][1]
    ELSE altitude_bounds[n + 1][1] - altitude_bounds[n + 1][2]

\* element (r, c) after both loops: the row divided by its height, or set
\* to zero, then the column multiplied by its height
density_avk_element(num_levels, partial_column_avk, altitude_bounds, r, c) ==
    LET height_r == layer_height(altitude_bounds, r)
        height_c == layer_height(altitude_bounds, c)
    IN  Mul(IF height_r < EPSILON THEN Num(0)
            ELSE Quot(At(partial_column_avk, r * num_levels + c), 1, height_r),
            Num(height_c))

harp_density_avk_from_partial_column_avk_and_altitude_bounds(num_levels, partial_column_avk, altitude_bounds) ==
    [k \in 1..(num_levels * num_levels) |->
        density_avk_element(num_levels, partial_column_avk, altitude_bounds,
            (k - 1) \div num_levels, (k - 1) % num_levels)]

\* the first loop multiplying by the height of the column
partial_column_avk_element_by_column(num_levels, density_avk, altitude_bounds, r, c) ==
    LET height_c == layer_height(altitude_bounds, c)
        scaled == Mul(At(density_avk, r * num_levels + c), Num(height_c))
    IN  IF height_c < EPSILON THEN Num(0) ELSE Quot(scaled, 1, height_c)

\* element (r, c) after both loops: the row multiplied by its height, then
\* the column divided by its height, or set to zero
partial_column_avk_element(num_levels, density_avk, altitude_bounds, r, c) ==
    LET height_r == layer_height(altitude_bounds, r)
        height_c == layer_height(altitude_bounds, c)
        scaled == Mul(At(density_avk, r * num_levels + c), Num(height_r))
    IN  IF height_c < EPSILON THEN Num(0) ELSE Quot(scaled, 1, height_c)

harp_partial_column_avk_from_density_avk_and_altitude_bounds(num_levels, density_avk, altitude_bounds) ==
    [k \in 1..(num_levels * num_levels) |->
        partial_column_avk_element(num_levels, density_avk, altitude_bounds,
            (k - 1) \div num_levels, (k - 1) % num_levels)]

\* the body of the loop over the levels with the apriori subtracted without
\* the weight of the kernel
smoothed_column_step_unweighted(acc, partcol, avk, apriori) ==
    LET weighted ==
            IF ~harp_isnan(partcol)
            THEN [value |-> Add(acc.value, Mul(partcol, avk)),
                  is_valid |-> TRUE]
            ELSE acc
        subtracted ==
            IF ~harp_isnan(partcol) /\ apriori # <<>>
                   /\ ~harp_isnan(apriori[1])
            THEN [weighted EXCEPT !.value = Sub(@, apriori[1])]
            ELSE weighted
    IN  IF apriori # <<>> /\ ~harp_isnan(apriori[1])
        THEN [value |-> Add(subtracted.value, apriori[1]), is_valid |-> TRUE]
        ELSE subtracted

\* the body of the loop over the levels j of harp_product_get_smoothed_column:
\* acc holds column_variable->data.double_data[i] and is_valid, apriori is
\* <<>> when apriori == NULL and <<the element of the level>> otherwise
smoothed_column_step(acc, partcol, avk, apriori) ==
    LET weighted ==
            IF ~harp_isnan(partcol)
            THEN [value |-> Add(acc.value, Mul(partcol, avk)),
                  is_valid |-> TRUE]
            ELSE acc
        subtracted ==
            IF ~harp_isnan(partcol) /\ apriori # <<>>
                   /\ ~harp_isnan(apriori[1])
            THEN [weighted EXCEPT !.value = Sub(@, Mul(avk, apriori[1]))]
            ELSE weighted
    IN  IF apriori # <<>> /\ ~harp_isnan(apriori[1])
        THEN [value |-> Add(subtracted.value, apriori[1]), is_valid |-> TRUE]
        ELSE subtracted

\* the loop over the levels from level n on, for element e
RECURSIVE smoothed_column_levels(_, _, _, _, _, _, _)
smoothed_column_levels(acc, vertical_elements, partcol_variable, column_avk, apriori, e, n) ==
    IF n >= vertical_elements THEN acc
    ELSE smoothed_column_levels(
             smoothed_column_step(acc,
                 At(partcol_variable.data, e * vertical_elements + n),
                 At(column_avk.data, e * vertical_elements + n),
                 IF IsNull(apriori) THEN <<>>
                 ELSE <<At(apriori.data, e * vertical_elements + n)>>),
             vertical_elements, partcol_variable, column_avk, apriori,
             e, n + 1)

\* the loop over the elements of the column variable
smoothed_column_data(elements, vertical_elements, partcol_variable, column_avk, apriori) ==
    [k \in 1..elements |->
        LET acc == smoothed_column_levels(
                       [value |-> Num(0), is_valid |-> FALSE],
                       vertical_elements, partcol_variable, column_avk,
                       apriori, k - 1, 0)
        IN  IF ~acc.is_valid THEN NaN ELSE acc.value]

\* The hydrostatic integrators. Pressure is kept as its logarithm to base
\* 2, so that log(prev_p / p) is prev_p - p and prev_p * exp(-x) is
\* prev_p - x; the unit of height makes 1e3 * CONST_MOLAR_GAS * log(2) equal
\* to 2, and gravity is 1 or 2 in the unit that makes the reference gravity 2
CONST_MOLAR_GAS == 2
CONST_GRAV_ACCEL_45LAT_WGS84_SPHERE == 2

\* gravity at sea level, greater at the pole than at the equator
harp_normal_gravity_from_latitude(latitude) ==
    IF latitude >= 45 THEN 2 ELSE 1

\* gravity falls with the altitude
harp_gravity_from_latitude_and_altitude(latitude, altitude) ==
    IF latitude >= 45 /\ altitude < 100 THEN 2 ELSE 1

\* the test of the storage order that never finds the top of the atmosphere
\* first
pressure_from_toa_never(pressure_profile, num_levels) == FALSE

\* pressure_profile[0] < pressure_profile[num_levels - 1]: the vertical axis
\* is from the top of the atmosphere to the surface
pressure_from_toa(pressure_profile, num_levels) ==
    At(pressure_profile, 0) < At(pressure_profile, num_levels - 1)

\* the test of the storage order of the heights that never finds the top
\* of the atmosphere first
height_from_toa_never(height_profile, num_levels) == FALSE

\* altitude_profile[0] > altitude_profile[num_levels - 1]
height_from_toa(height_profile, num_levels) ==
    At(height_profile, 0) > At(height_profile, num_levels - 1)

RECURSIVE altitude_from_pressure_levels(_, _, _, _, _, _, _, _, _, _)
altitude_from_pressure_levels(num_levels, pressure_profile, temperature_profile, molar_mass_air, surface_pressure, surface_height, latitude, n, prev, altitude_profile) ==
    IF n >= num_levels THEN altitude_profile
    ELSE LET k == IF pressure_from_toa(pressure_profile, num_levels)
                  THEN num_levels - 1 - n ELSE n
             p == At(pressure_profile, k)
             M == At(molar_mass_air, k)
             T == At(temperature_profile, k)
             z == IF n = 0
                  THEN surface_height
                           + (T * CONST_MOLAR_GAS * (surface_pressure - p))
                                 \div (M * harp_normal_gravity_from_latitude(
                                               latitude))
                  ELSE prev.z
                           + ((prev.T + T) * CONST_MOLAR_GAS * (prev.p - p))
                                 \div ((prev.M + M)
                                       * harp_gravity_from_latitude_and_altitude(
                                             latitude, prev.z))
         IN  altitude_from_pressure_levels(num_levels, pressure_profile, temperature_profile, molar_mass_air, surface_pressure, surface_height, latitude, n + 1,
                 [p |-> p, M |-> M, T |-> T, z |-> z],
                 [altitude_profile EXCEPT ![k + 1] = z])

\* prev holds prev_p, prev_M, prev_T and prev_z
harp_profile_altitude_from_pressure(num_levels, pressure_profile, temperature_profile, molar_mass_air, surface_pressure, surface_height, latitude) ==
    altitude_from_pressure_levels(num_levels, pressure_profile, temperature_profile, molar_mass_air, surface_pressure, surface_height, latitude, 0,
        [p |-> 0, M |-> 0, T |-> 0, z |-> 0], Fill(num_levels, 0))

RECURSIVE gph_from_pressure_levels(_, _, _, _, _, _, _, _, _)
gph_from_pressure_levels(num_levels, pressure_profile, temperature_profile, molar_mass_air, surface_pressure, surface_height, n, prev, gph_profile) ==
    IF n >= num_levels THEN gph_profile
    ELSE LET k == IF pressure_from_toa(pressure_profile, num_levels)
                  THEN num_levels - 1 - n ELSE n
             p == At(pressure_profile, k)
             M == At(molar_mass_air, k)
             T == At(temperature_profile, k)
             z == IF n = 0
                  THEN surface_height
                           + (T * CONST_MOLAR_GAS * (surface_pressure - p))
                                 \div (M * CONST_GRAV_ACCEL_45LAT_WGS84_SPHERE)
                  ELSE prev.z
                           + ((prev.T + T) * CONST_MOLAR_GAS * (prev.p - p))
                                 \div ((prev.M + M)
                                       * CONST_GRAV_ACCEL_45LAT_WGS84_SPHERE)
         IN  gph_from_pressure_levels(num_levels, pressure_profile, temperature_profile, molar_mass_air, surface_pressure, surface_height, n + 1,
                 [p |-> p, M |-> M, T |-> T, z |-> z],
                 [gph_profile EXCEPT ![k + 1] = z])

\* the same with the reference gravity at every level
harp_profile_gph_from_pressure(num_levels, pressure_profile, temperature_profile, molar_mass_air, surface_pressure, surface_height) ==
    gph_from_pressure_levels(num_levels, pressure_profile, temperature_profile, molar_mass_air, surface_pressure, surface_height, 0,
        [p |-> 0, M |-> 0, T |-> 0, z |-> 0], Fill(num_levels, 0))

RECURSIVE pressure_from_altitude_levels(_, _, _, _, _, _, _, _, _, _)
pressure_from_altitude_levels(num_levels, altitude_profile, temperature_profile, molar_mass_air, surface_pressure, surface_height, latitude, n, prev, pressure_profile) ==
    IF n >= num_levels THEN pressure_profile
    ELSE LET k == IF height_from_toa(altitude_profile, num_levels)
                  THEN num_levels - 1 - n ELSE n
             z == At(altitude_profile, k)
             M == At(molar_mass_air, k)
             T == At(temperature_profile, k)
             p == IF n = 0
                  THEN surface_pressure
                           - (M * harp_gravity_from_latitude_and_altitude(
                                      latitude, (z + surface_height) \div 2)
                                * (z - surface_height))
                                 \div (T * CONST_MOLAR_GAS)
                  ELSE prev.p
                           - ((prev.M + M)
                                * harp_gravity_from_latitude_and_altitude(
                                      latitude, (prev.z + z) \div 2)
                                * (z - prev.z))
                                 \div ((prev.T + T) * CONST_MOLAR_GAS)
         IN  pressure_from_altitude_levels(num_levels, altitude_profile, temperature_profile, molar_mass_air, surface_pressure, surface_height, latitude, n + 1,
                 [p |-> p, M |-> M, T |-> T, z |-> z],
                 [pressure_profile EXCEPT ![k + 1] = p])

\* gravity is taken at the middle of the layer below the level
harp_profile_pressure_from_altitude(num_levels, altitude_profile, temperature_profile, molar_mass_air, surface_pressure, surface_height, latitude) ==
    pressure_from_altitude_levels(num_levels, altitude_profile, temperature_profile, molar_mass_air, surface_pressure, surface_height, latitude, 0,
        [p |-> 0, M |-> 0, T |-> 0, z |-> 0], Fill(num_levels, 0))

RECURSIVE pressure_from_gph_levels(_, _, _, _, _, _, _, _, _)
pressure_from_gph_levels(num_levels, gph_profile, temperature_profile, molar_mass_air, surface_pressure, surface_height, n, prev, pressure_profile) ==
    IF n >= num_levels THEN pressure_profile
    ELSE LET k == IF height_from_toa(gph_profile, num_levels)
                  THEN num_levels - 1 - n ELSE n
             z == At(gph_profile, k)
             M == At(molar_mass_air, k)
             T == At(temperature_profile, k)
             p == IF n = 0
                  THEN surface_pressure
                           - (M * CONST_GRAV_ACCEL_45LAT_WGS84_SPHERE
                                * (z - surface_height))
                                 \div (T * CONST_MOLAR_GAS)
                  ELSE prev.p
                           - ((prev.M + M)
                                * CONST_GRAV_ACCEL_45LAT_WGS84_SPHERE
                                * (z - prev.z))
                                 \div ((prev.T + T) * CONST_MOLAR_GAS)
         IN  pressure_from_gph_levels(num_levels, gph_profile, temperature_profile, molar_mass_air, surface_pressure, surface_height, n + 1,
                 [p |-> p, M |-> M, T |-> T, z |-> z],
                 [pressure_profile EXCEPT ![k + 1] = p])

\* the same with the reference gravity at every level
harp_profile_pressure_from_gph(num_levels, gph_profile, temperature_profile, molar_mass_air, surface_pressure, surface_height) ==
    pressure_from_gph_levels(num_levels, gph_profile, temperature_profile, molar_mass_air, surface_pressure, surface_height, 0,
        [p |-> 0, M |-> 0, T |-> 0, z |-> 0], Fill(num_levels, 0))

\* The callers' inputs: the functions of one family are applied to the same
\* arguments, in any order
MaxLevels == 5
ColumnValues == {NaN, Num(1), Num(2), Num(3)}
ColumnInputs ==
    {[partial_column_profile |-> p] :
        p \in UNION {[1..n -> ColumnValues] : n \in 0..MaxLevels}}

PartialColumns == [1..3 -> {NaN, Num(12), Num(24)}]
AltitudeBounds ==
    {<<(<<0, 4>>), (<<4, 8>>), (<<8, 12>>)>>,
     <<(<<0, 2>>), (<<2, 6>>), (<<6, 8>>)>>,
     <<(<<0, 4>>), (<<6, 8>>), (<<8, 12>>)>>}
AltitudeColumnInputs ==
    [partial_column_profile : PartialColumns,
     altitude_bounds : AltitudeBounds,
     tropopause_altitude : 0..13]

PressureBounds ==
    {<<(<<64, 16>>), (<<16, 4>>), (<<4, 1>>)>>,
     <<(<<512, 64>>), (<<64, 8>>), (<<8, 1>>)>>}
PressureColumnInputs ==
    [partial_column_profile : PartialColumns,
     pressure_bounds : PressureBounds,
     tropopause_pressure : {1024, 512, 256, 128, 64, 32, 16, 8, 4, 2, 1}]

\* Profiles of the tropopause locator: altitudes and temperatures from the
\* thickness and the temperature drop of each layer, pressures decreasing
\* with a levels above 50000 Pa and b levels at or below 5000 Pa
NumLevels == 5
RECURSIVE Cumulative(_, _)
Cumulative(first, steps) ==
    IF steps = <<>> THEN <<first>>
    ELSE <<first>> \o Cumulative(first + Head(steps), Tail(steps))

Negated(steps) == [n \in 1..Len(steps) |-> 0 - steps[n]]

PressureProfile(a, b) ==
    [n \in 1..NumLevels |->
        IF n <= a THEN 60000 - 1000 * n
        ELSE IF n <= NumLevels - b THEN 50000 - 1000 * (n - a - 1)
        ELSE 5000 - 100 * (n - (NumLevels - b) - 1)]

StandardAtmosphere ==
    [num_levels |-> 21,
     altitude_profile |-> [n \in 1..21 |-> 1000 * (n - 1)],
     pressure_profile |->
         <<101325, 89875, 79495, 70109, 61640, 54020, 47181, 41061, 35600,
           30742, 26436, 22632, 19330, 16510, 14102, 12045, 10287, 8787,
           7505, 6410, 5475>>,
     temperature_profile |->
         [n \in 1..21 |-> IF n <= 12 THEN 288150 - 6500 * (n - 1)
                          ELSE 216650]]

\* Profiles of up to MaxThinLevels levels with layers of height 0, of
\* height 1 (below EPSILON) and of 1000 m
MaxThinLevels == 4
PressureProfileOf(levels, a, b) ==
    [n \in 1..levels |->
        IF n <= a THEN 60000 - 1000 * n
        ELSE IF n <= levels - b THEN 50000 - 1000 * (n - a - 1)
        ELSE 5000 - 100 * (n - (levels - b) - 1)]

ThinLayerInputs ==
    {[num_levels |-> 0, altitude_profile |-> <<>>, pressure_profile |-> <<>>,
      temperature_profile |-> <<>>]}
    \cup UNION {
        {[num_levels |-> levels,
          altitude_profile |-> Cumulative(0, h),
          pressure_profile |-> PressureProfileOf(levels, a, b),
          temperature_profile |-> Cumulative(300000, Negated(t))] :
            h \in [1..(levels - 1) -> {0, 1, 1000}],
            t \in [1..(levels - 1) -> {1000, 5000}],
            a \in 0..levels, b \in 0..levels} : levels \in 1..MaxThinLevels}

TropopauseInputs ==
    {[num_levels |-> NumLevels,
      altitude_profile |-> Cumulative(0, h),
      pressure_profile |-> PressureProfile(a, b),
      temperature_profile |-> Cumulative(300000, Negated(t))] :
        h \in [1..(NumLevels - 1) -> {0 - 1000, 500, 1000}],
        t \in [1..(NumLevels - 1) -> {1000, 5000}],
        a \in 0..NumLevels, b \in 0..NumLevels}
    \cup {StandardAtmosphere}

\* the bounds of the column functions, and bounds with a level of no height
ColumnAvkBounds ==
    AltitudeBounds \cup {<<(<<0, 4>>), (<<4, 4>>), (<<4, 8>>)>>}
ColumnAvkInputs ==
    [column_density_avk : [1..3 -> {NaN, Num(0), Num(1)}],
     altitude_bounds : ColumnAvkBounds,
     tropopause_altitude : 0..13]

\* kernels of two levels; a layer has height 0, 1 (below EPSILON), 2 or 4
LayerBounds == {<<0, 0>>, <<0, 1>>, <<0, 2>>, <<4, 0>>}
AvkInputs ==
    [num_levels : {2},
     partial_column_avk : [1..4 -> {NaN, Num(0), Num(4), Num(8)}],
     altitude_bounds : [1..2 -> LayerBounds]]

\* the regridded partial column profile, the column kernel and the apriori of
\* two elements of two levels
ColumnShape == <<2, 2>>
ColumnKinds == <<"time", "vertical">>
SmoothedColumnInputs ==
    [partcol_variable :
        {Variable("double", ColumnKinds, ColumnShape, d) :
            d \in [1..4 -> {NaN, Num(1), Num(3)}]},
     column_avk :
        {Variable("double", ColumnKinds, ColumnShape, d) :
            d \in {Fill(4, Num(1)), Ramp(4)}},
     apriori :
        {NULL} \cup {Variable("double", ColumnKinds, ColumnShape, d) :
                        d \in [1..4 -> {NaN, Num(1), Num(2)}]}]

\* Profiles of the hydrostatic integrators, stored from the surface up or
\* from the top down: pressures one or two octaves apart below a surface
\* pressure of 2^10, heights 288 or 576 apart above a surface at 0
HydroLevels == 3
Reverse(s) == [n \in 1..Len(s) |-> s[Len(s) + 1 - n]]
BothOrders(profiles) == profiles \cup {Reverse(q) : q \in profiles}

PressureLevelInputs ==
    [num_levels : {HydroLevels},
     pressure_profile :
         BothOrders({Cumulative(9, Negated(d)) :
                        d \in [1..(HydroLevels - 1) -> {1, 2}]}),
     temperature_profile : [1..HydroLevels -> {12, 24}],
     molar_mass_air : [1..HydroLevels -> {1, 2}],
     surface_pressure : {10},
     surface_height : {0},
     latitude : {0, 90}]

HeightLevelInputs ==
    [num_levels : {HydroLevels},
     height_profile :
         BothOrders({Cumulative(288, h) :
                        h \in [1..(HydroLevels - 1) -> {288, 576}]}),
     temperature_profile : [1..HydroLevels -> {12, 24}],
     molar_mass_air : [1..HydroLevels -> {1, 2}],
     surface_pressure : {10},
     surface_height : {0},
     latitude : {0, 90}]

ProfileInputs(family) ==
    CASE family = "column" -> ColumnInputs
      [] family = "altitude_column" -> AltitudeColumnInputs
      [] family = "pressure_column" -> PressureColumnInputs
      [] family = "tropopause" -> TropopauseInputs
      [] family = "thin_tropopause" -> ThinLayerInputs
      [] family = "column_avk" -> ColumnAvkInputs
      [] family = "avk" -> AvkInputs
      [] family = "smoothed_column" -> SmoothedColumnInputs
      [] family = "pressure_levels" -> PressureLevelInputs
      [] family = "height_levels" -> HeightLevelInputs

\* the functions applied to the inputs of a family
ProfileCalls(family) ==
    CASE family = "column" -> {"column"}
      [] family = "altitude_column" -> {"column", "tropo", "strato"}
      [] family = "pressure_column" -> {"column", "tropo", "strato"}
      [] family = "tropopause" -> {"index"}
      [] family = "thin_tropopause" -> {"index"}
      [] family = "column_avk" -> {"tropospheric", "stratospheric"}
      [] family = "avk" -> {"density", "partial", "density_again",
                            "partial_again"}
      [] family = "smoothed_column" -> {"column_variable"}
      [] family = "pressure_levels" -> {"altitude", "gph", "pressure_again"}
      [] family = "height_levels" -> {"by_altitude", "by_gph"}

Families ==
    {"column", "altitude_column", "pressure_column", "tropopause",
     "thin_tropopause", "column_avk", "avk", "smoothed_column", "pressure_levels",
     "height_levels"}

InitProfile ==
    /\ pf_fn \in Families
    /\ pf_args \in ProfileInputs(pf_fn)
    /\ pf_result = <<>>
    /\ pf_pc = "call"
    /\ OrchIdle
    /\ SmoothIdle
    /\ GribIdle

\* a call returns: its result is kept under the call's name
ProfileReturn(call, result) ==
    /\ pf_pc = "call"
    /\ call \in ProfileCalls(pf_fn) \ DOMAIN pf_result
    /\ pf_result' = pf_result @@ (call :> result)
    /\ pf_pc' = IF DOMAIN pf_result \cup {call} = ProfileCalls(pf_fn)
                THEN "done" ELSE "call"
    /\ UNCHANGED <<pf_fn, pf_args, orch_vars, smooth_vars, grib_vars>>

ColumnFromPartialColumn ==
    /\ pf_fn \in {"column", "altitude_column", "pressure_column"}
    /\ ProfileReturn("column",
              harp_profile_column_from_partial_column(
                  Len(pf_args.partial_column_profile),
                  pf_args.partial_column_profile))

TropoColumnAltitude ==
    /\ pf_fn = "altitude_column"
    /\ ProfileReturn("tropo",
              harp_profile_tropo_column_from_partial_column_and_altitude(
                  Len(pf_args.partial_column_profile),
                  pf_args.partial_column_profile, pf_args.altitude_bounds,
                  pf_args.tropopause_altitude))

StratoColumnAltitude ==
    /\ pf_fn = "altitude_column"
    /\ ProfileReturn("strato",
              harp_profile_strato_column_from_partial_column_and_altitude(
                  Len(pf_args.partial_column_profile),
                  pf_args.partial_column_profile, pf_args.altitude_bounds,
                  pf_args.tropopause_altitude))

TropoColumnPressure ==
    /\ pf_fn = "pressure_column"
    /\ ProfileReturn("tropo",
              harp_profile_tropo_column_from_partial_column_and_pressure(
                  Len(pf_args.partial_column_profile),
                  pf_args.partial_column_profile, pf_args.pressure_bounds,
                  pf_args.tropopause_pressure))

StratoColumnPressure ==
    /\ pf_fn = "pressure_column"
    /\ ProfileReturn("strato",
              harp_profile_strato_column_from_partial_column_and_pressure(
                  Len(pf_args.partial_column_profile),
                  pf_args.partial_column_profile, pf_args.pressure_bounds,
                  pf_args.tropopause_pressure))

TropopauseIndex ==
    /\ pf_fn \in {"tropopause", "thin_tropopause"}
    /\ ProfileReturn("index",
           harp_tropopause_index_from_altitude_and_temperature(
               pf_args.num_levels, pf_args.altitude_profile,
               pf_args.pressure_profile, pf_args.temperature_profile))

TroposphericColumnAvk ==
    /\ pf_fn = "column_avk"
    /\ ProfileReturn("tropospheric",
           harp_profile_tropospheric_column_avk_from_column_avk(
               Len(pf_args.column_density_avk), pf_args.column_density_avk,
               pf_args.altitude_bounds, pf_args.tropopause_altitude))

StratosphericColumnAvk ==
    /\ pf_fn = "column_avk"
    /\ ProfileReturn("stratospheric",
           harp_profile_stratospheric_column_avk_from_column_avk(
               Len(pf_args.column_density_avk), pf_args.column_density_avk,
               pf_args.altitude_bounds, pf_args.tropopause_altitude))

\* the partial column kernel is converted to a density kernel: first the
\* caller's kernel, then the kernel that came back from the conversion
DensityAvkFromPartialColumnAvk ==
    /\ pf_fn = "avk"
    /\ \/ ProfileReturn("density",
              harp_density_avk_from_partial_column_avk_and_altitude_bounds(
                  pf_args.num_levels, pf_args.partial_column_avk,
                  pf_args.altitude_bounds))
       \/ /\ "partial" \in DOMAIN pf_result
          /\ ProfileReturn("density_again",
                 harp_density_avk_from_partial_column_avk_and_altitude_bounds(
                     pf_args.num_levels, pf_result["partial"],
                     pf_args.altitude_bounds))

\* the density kernel that the last conversion gave is converted back
PartialColumnAvkFromDensityAvk ==
    /\ pf_fn = "avk"
    /\ \/ /\ "density" \in DOMAIN pf_result
          /\ ProfileReturn("partial",
                 harp_partial_column_avk_from_density_avk_and_altitude_bounds(
                     pf_args.num_levels, pf_result["density"],
                     pf_args.altitude_bounds))
       \/ /\ "density_again" \in DOMAIN pf_result
          /\ ProfileReturn("partial_again",
                 harp_partial_column_avk_from_density_avk_and_altitude_bounds(
                     pf_args.num_levels, pf_result["density_again"],
                     pf_args.altitude_bounds))

\* the loops of harp_product_get_smoothed_column that fill the new variable
SmoothedColumn ==
    /\ pf_fn = "smoothed_column"
    /\ ProfileReturn("column_variable",
           smoothed_column_data(pf_args.column_avk.dimension[1],
               pf_args.column_avk.dimension[2], pf_args.partcol_variable,
               pf_args.column_avk, pf_args.apriori))

AltitudeFromPressure ==
    /\ pf_fn = "pressure_levels"
    /\ ProfileReturn("altitude",
           harp_profile_altitude_from_pressure(pf_args.num_levels,
               pf_args.pressure_profile, pf_args.temperature_profile,
               pf_args.molar_mass_air, pf_args.surface_pressure,
               pf_args.surface_height, pf_args.latitude))

GphFromPressure ==
    /\ pf_fn = "pressure_levels"
    /\ ProfileReturn("gph",
           harp_profile_gph_from_pressure(pf_args.num_levels,
               pf_args.pressure_profile, pf_args.temperature_profile,
               pf_args.molar_mass_air, pf_args.surface_pressure,
               pf_args.surface_height))

PressureFromAltitude ==
    /\ pf_fn = "height_levels"
    /\ ProfileReturn("by_altitude",
           harp_profile_pressure_from_altitude(pf_args.num_levels,
               pf_args.height_profile, pf_args.temperature_profile,
               pf_args.molar_mass_air, pf_args.surface_pressure,
               pf_args.surface_height, pf_args.latitude))

\* the caller's heights are converted, or the geopotential heights that
\* harp_profile_gph_from_pressure gave for the caller's pressures
PressureFromGph ==
    \/ /\ pf_fn = "height_levels"
       /\ ProfileReturn("by_gph",
              harp_profile_pressure_from_gph(pf_args.num_levels,
                  pf_args.height_profile, pf_args.temperature_profile,
                  pf_args.molar_mass_air, pf_args.surface_pressure,
                  pf_args.surface_height))
    \/ /\ pf_fn = "pressure_levels"
       /\ "gph" \in DOMAIN pf_result
       /\ ProfileReturn("pressure_again",
              harp_profile_pressure_from_gph(pf_args.num_levels,
                  pf_result["gph"], pf_args.temperature_profile,
                  pf_args.molar_mass_air, pf_args.surface_pressure,
                  pf_args.surface_height))

NextProfile ==
    \/ ColumnFromPartialColumn
    \/ TropoColumnAltitude
    \/ StratoColumnAltitude
    \/ TropoColumnPressure
    \/ StratoColumnPressure
    \/ TropopauseIndex
    \/ TroposphericColumnAvk
    \/ StratosphericColumnAvk
    \/ DensityAvkFromPartialColumnAvk
    \/ PartialColumnAvkFromDensityAvk
    \/ SmoothedColumn
    \/ AltitudeFromPressure
    \/ GphFromPressure
    \/ PressureFromAltitude
    \/ PressureFromGph

SpecProfile == InitProfile /\ [][NextProfile]_vars

\* What the statements about the smoothing speak of: the extents, row k of
\* the axis, the trimmed length of a row, element (k, l, n) of the profile,
\* element (k, n) of the apriori, element (k, m, n) of the AVK (all from 0)
SmoothCallReturned == sv_pc = "done" /\ sv_rc = 0
Levels(a) == a.averaging_kernel.dimension[2]
TimeRows(a) == a.variable.dimension[1]
Blocks(a) == (Prod(a.variable.dimension) \div TimeRows(a)) \div Levels(a)
AxisRow(a, k) ==
    [n \in 1..Levels(a) |-> a.vertical_axis.data[k * Levels(a) + n]]
TrimmedLength(row) ==
    LET present == {n \in 1..Len(row) : row[n] # NaN}
    IN  IF present = {} THEN 0
        ELSE CHOOSE n \in present : \A m \in present : m <= n
ValidLevels(a, k) ==
    IF IsNull(a.vertical_axis) THEN Levels(a)
    ELSE TrimmedLength(AxisRow(a, k))
ProfileAt(a, buf, k, l, n) == buf[(k * Blocks(a) + l) * Levels(a) + n + 1]
AprioriAt(a, k, n) == a.apriori.data[k * Levels(a) + n + 1]
AvkAt(a, k, m, n) ==
    a.averaging_kernel.data[(k * Levels(a) + m) * Levels(a) + n + 1]
\* x[n] - apriori[n] of block (k, l), x being the profile on entry
Departure(a, k, l, n) ==
    LET x == ProfileAt(a, a.variable.data, k, l, n)
    IN  IF IsNull(a.apriori) THEN x
        ELSE IF x = NaN \/ AprioriAt(a, k, n) = NaN THEN NaN
        ELSE Num(x[1] - AprioriAt(a, k, n)[1])
Contributing(a, k, l) ==
    {n \in 0..(ValidLevels(a, k) - 1) : Departure(a, k, l, n) # NaN}
\* the sum of avk[m,n] * (x[n] - apriori[n]) over the contributing levels n
RECURSIVE WeightedSum(_, _, _, _, _)
WeightedSum(a, k, l, m, levels) ==
    IF levels = {} THEN 0
    ELSE LET n == CHOOSE n \in levels : TRUE
         IN  AvkAt(a, k, m, n)[1] * Departure(a, k, l, n)[1]
                 + WeightedSum(a, k, l, m, levels \ {n})

\* C11: every level m below the valid-level count of its time row holds
\* after the call the sum over the contributing levels n of
\* avk[m,n] * (x[n] - apriori[n]), plus apriori[m]; without apriori the
\* apriori terms are left out and the result is NaN when no level
\* contributes; the AVK and apriori of time row k serve every block of it.
C11_SmoothedValue ==
    SmoothCallReturned =>
        \A k \in 0..(TimeRows(sv_args) - 1), l \in 0..(Blocks(sv_args) - 1) :
            \A m \in 0..(ValidLevels(sv_args, k) - 1) :
                ProfileAt(sv_args, sv_buffer, k, l, m) =
                    LET sum == WeightedSum(sv_args, k, l, m,
                                           Contributing(sv_args, k, l))
                    IN  IF IsNull(sv_args.apriori)
                        THEN IF Contributing(sv_args, k, l) = {} THEN NaN
                             ELSE Num(sum)
                        ELSE IF AprioriAt(sv_args, k, m) = NaN THEN NaN
                        ELSE Num(sum + AprioriAt(sv_args, k, m)[1])

NaNFree(data) == \A n \in 1..Len(data) : data[n] # NaN
IsIdentityAvk(a) ==
    \A k \in 0..(TimeRows(a) - 1), m, n \in 0..(Levels(a) - 1) :
        AvkAt(a, k, m, n) = IF m = n THEN Num(1) ELSE Num(0)
ZeroOrAbsent(v) == IsNull(v) \/ \A n \in 1..Len(v.data) : v.data[n] = Num(0)

\* C12: a NaN-free variable smoothed with an identity AVK on every time row
\* and an apriori that is zero or absent has after the call the values it
\* had on entry, whatever the valid-level counts the axis gives.
C12_IdentitySmoothing ==
    (/\ SmoothCallReturned
     /\ NaNFree(sv_args.variable.data)
     /\ IsIdentityAvk(sv_args)
     /\ ZeroOrAbsent(sv_args.apriori)) => sv_buffer = sv_args.variable.data

\* identity smoothing with a zero apriori on a row of which the axis says
\* that one level of three is valid
C12_Witness ==
    /\ SmoothCallReturned
    /\ NaNFree(sv_args.variable.data)
    /\ IsIdentityAvk(sv_args)
    /\ ~IsNull(sv_args.apriori) /\ ZeroOrAbsent(sv_args.apriori)
    /\ ~IsNull(sv_args.vertical_axis)
    /\ Levels(sv_args) = 3
    /\ ValidLevels(sv_args, 0) = 1
    /\ sv_levels[1] = 1
    /\ sv_buffer = sv_args.variable.data

\* C13: the number of levels used for a time row is the length of that row
\* of the axis with the trailing NaN values trimmed, also for a row that is
\* all NaN; without an axis it is the vertical extent.
C13_LevelsAreTrimmedLength ==
    SmoothCallReturned =>
        \A k \in 1..TimeRows(sv_args) :
            sv_levels[k] = ValidLevels(sv_args, k - 1)

-----------------------------------------------------------------------------
(* Properties of the profile functions, under SpecProfile *)

Returned(call) == call \in DOMAIN pf_result

\* the sum of the elements of a profile that are not NaN
RECURSIVE SumOfNumbers(_)
SumOfNumbers(profile) ==
    IF profile = <<>> THEN 0
    ELSE (IF Head(profile) = NaN THEN 0 ELSE Head(profile)[1])
         + SumOfNumbers(Tail(profile))

AllNaN(profile) == \A n \in 1..Len(profile) : profile[n] = NaN

\* C14: harp_profile_column_from_partial_column returns the sum of exactly
\* the elements of the partial column profile that are not NaN, and returns
\* NaN if and only if every element is NaN, the profile without levels
\* included
C14_ColumnIsSumOfNumbers ==
    (pf_fn = "column" /\ Returned("column")) =>
        /\ pf_result["column"] = NaN <=> AllNaN(pf_args.partial_column_profile)
        /\ ~AllNaN(pf_args.partial_column_profile) =>
               pf_result["column"]
                   = Num(SumOfNumbers(pf_args.partial_column_profile))

C14_Witness ==
    /\ pf_fn = "column"
    /\ pf_args.partial_column_profile
           = <<NaN, Num(1), Num(2), NaN, Num(3)>>
    /\ Returned("column")
    /\ pf_result["column"] = Num(6)

\* the level bounds follow each other without a gap
Contiguous(bounds) ==
    \A n \in 1..(Len(bounds) - 1) : bounds[n][2] = bounds[n + 1][1]

\* the tropopause lies strictly inside one level
StrictlyInsideALevel(bounds, tropopause) ==
    \E n \in 1..Len(bounds) :
        \/ bounds[n][1] < tropopause /\ tropopause < bounds[n][2]
        \/ bounds[n][1] > tropopause /\ tropopause > bounds[n][2]

ComplementCase ==
    /\ pf_fn \in {"altitude_column", "pressure_column"}
    /\ pf_pc = "done"
    /\ NaNFree(pf_args.partial_column_profile)
    /\ IF pf_fn = "altitude_column"
       THEN /\ \A n \in 1..3 : pf_args.altitude_bounds[n][1]
                                   < pf_args.altitude_bounds[n][2]
            /\ Contiguous(pf_args.altitude_bounds)
            /\ StrictlyInsideALevel(pf_args.altitude_bounds,
                                    pf_args.tropopause_altitude)
       ELSE /\ \A n \in 1..3 : pf_args.pressure_bounds[n][1]
                                   > pf_args.pressure_bounds[n][2]
            /\ Contiguous(pf_args.pressure_bounds)
            /\ StrictlyInsideALevel(pf_args.pressure_bounds,
                                    pf_args.tropopause_pressure)

\* C15: for a partial column profile without NaN, well-ordered contiguous
\* level bounds and a tropopause strictly inside one level, the tropospheric
\* and the stratospheric column add up to the total column, by altitude and
\* by pressure
C15_StratoIsComplement ==
    ComplementCase =>
        Add(pf_result["tropo"], pf_result["strato"]) = pf_result["column"]

\* The levels are numbered from 0, as in the code
Altitude(n) == pf_args.altitude_profile[n + 1]
Pressure(n) == pf_args.pressure_profile[n + 1]
Temperature(n) == pf_args.temperature_profile[n + 1]

TropopauseReturned ==
    pf_fn \in {"tropopause", "thin_tropopause"} /\ Returned("index")

Increasing ==
    \A n \in 0..(pf_args.num_levels - 2) : Altitude(n) < Altitude(n + 1)

\* C16: the tropopause locator returns -1 whenever some pair of consecutive
\* levels has a decreasing altitude, wherever in the profile the pair lies
C16_NonMonotonicAltitudeRejected ==
    (TropopauseReturned /\ ~Increasing) => pf_result["index"] = -1

DecreasingPressure ==
    \A n \in 0..(pf_args.num_levels - 2) : Pressure(n) > Pressure(n + 1)

\* the lapse rate of the layer above level n, in uK/m
LapseAbove(n) ==
    ((Temperature(n) - Temperature(n + 1)) * 1000)
        \div (Altitude(n + 1) - Altitude(n))

RECURSIVE SumOfLapses(_)
SumOfLapses(levels) ==
    IF levels = {} THEN 0
    ELSE LET k == CHOOSE l \in levels : TRUE
         IN  LapseAbove(k - 1) + SumOfLapses(levels \ {k})

\* the levels above the layer over level n that lie within 2 km of level n
HigherLevels(n) ==
    {k \in (n + 2)..(pf_args.num_levels - 1) :
        Altitude(k) <= Altitude(n) + LookaheadHeight}

\* level n lies in the pressure window, between a layer whose lapse rate
\* exceeds 0.002 K/m and a layer whose lapse rate does not, and the average
\* lapse rate over the higher levels within 2 km does not exceed 0.002 K/m
Qualifies(n) ==
    /\ n \in 1..(pf_args.num_levels - 2)
    /\ Pressure(n) <= MaxTropopausePressure
    /\ Pressure(n) > MinTropopausePressure
    /\ LapseAbove(n - 1) > MaxLapseRate
    /\ LapseAbove(n) <= MaxLapseRate
    /\ SumOfLapses(HigherLevels(n))
           <= MaxLapseRate * Cardinality(HigherLevels(n))

QualifyingLevels == {n \in 1..(pf_args.num_levels - 2) : Qualifies(n)}

\* C17: for increasing altitude and decreasing pressure the tropopause
\* locator returns the lowest level of the pressure window at which the
\* lapse rate below exceeds 0.002 K/m, the lapse rate above does not, and
\* the average lapse rate over the higher levels within 2 km does not; it
\* returns -1 when no level qualifies, and the level of 11000 m for the
\* standard atmosphere of 21 levels
C17_LowestQualifyingLevel ==
    (TropopauseReturned /\ Increasing /\ DecreasingPressure) =>
        /\ QualifyingLevels = {} => pf_result["index"] = -1
        /\ QualifyingLevels # {} =>
               /\ pf_result["index"] \in QualifyingLevels
               /\ \A n \in QualifyingLevels : pf_result["index"] <= n
        /\ pf_args = StandardAtmosphere =>
               /\ pf_result["index"] = 11
               /\ Altitude(pf_result["index"]) = 11000

\* a lower level passes the two tests of the lapse rate and fails the test
\* of the average, and a higher level is returned
C17_Witness ==
    /\ TropopauseReturned /\ Increasing /\ DecreasingPressure
    /\ pf_args # StandardAtmosphere
    /\ pf_result["index"] > 1
    /\ \E n \in 1..(pf_result["index"] - 1) :
           /\ Pressure(n) <= MaxTropopausePressure
           /\ LapseAbove(n - 1) > MaxLapseRate
           /\ LapseAbove(n) <= MaxLapseRate
           /\ ~Qualifies(n)

C17_StandardAtmosphere ==
    TropopauseReturned /\ pf_args = StandardAtmosphere
        /\ pf_result["index"] = 11

\* the height of the layer of level n of the kernel, levels numbered from 0
Thickness(n) ==
    LET b == pf_args.altitude_bounds[n + 1]
    IN  IF b[2] >= b[1] THEN b[2] - b[1] ELSE b[1] - b[2]

\* the kernel is the caller's kernel where the layers of the row and of the
\* column are both at least EPSILON high, and zero elsewhere
RoundTripOf(kernel) ==
    \A r \in 0..(pf_args.num_levels - 1), c \in 0..(pf_args.num_levels - 1) :
        kernel[r * pf_args.num_levels + c + 1] =
            IF Thickness(r) >= EPSILON /\ Thickness(c) >= EPSILON
            THEN pf_args.partial_column_avk[r * pf_args.num_levels + c + 1]
            ELSE Num(0)

\* C18: converting a partial column kernel to a density kernel and back
\* gives the element of the caller's kernel wherever the layers of the row
\* and of the column are both at least EPSILON high and 0 elsewhere, and
\* converting there and back once more leaves those zeros zero
C18_KernelRoundTrip ==
    pf_fn = "avk" =>
        /\ Returned("partial") => RoundTripOf(pf_result["partial"])
        /\ Returned("partial_again") =>
               RoundTripOf(pf_result["partial_again"])

\* a kernel without a zero, a thin row and a thin column of different
\* heights, converted there and back twice
C18_Witness ==
    /\ pf_fn = "avk"
    /\ Returned("partial_again")
    /\ \A n \in 1..4 : pf_args.partial_column_avk[n] \in {Num(4), Num(8)}
    /\ Thickness(0) = 1
    /\ Thickness(1) = 4
    /\ pf_result["partial_again"][4] = pf_args.partial_column_avk[4]
    /\ pf_result["partial_again"][1] = Num(0)

\* C19: the tropospheric column kernel is 0 at the levels whose lower bound
\* is at or above the tropopause and the input element elsewhere; the
\* stratospheric column kernel is 0 at the levels whose upper bound is at or
\* below the tropopause and the input element elsewhere
C19_ColumnKernelSplit ==
    pf_fn = "column_avk" =>
        /\ Returned("tropospheric") =>
               \A n \in 1..3 :
                   pf_result["tropospheric"][n] =
                       IF pf_args.altitude_bounds[n][1]
                              >= pf_args.tropopause_altitude
                       THEN Num(0)
                       ELSE pf_args.column_density_avk[n]
        /\ Returned("stratospheric") =>
               \A n \in 1..3 :
                   pf_result["stratospheric"][n] =
                       IF pf_args.altitude_bounds[n][2]
                              <= pf_args.tropopause_altitude
                       THEN Num(0)
                       ELSE pf_args.column_density_avk[n]

\* the tropopause lies inside the second level: that level is kept in both
\* kernels, the first only in the tropospheric, the third only in the
\* stratospheric one
C19_Witness ==
    /\ pf_fn = "column_avk"
    /\ pf_pc = "done"
    /\ pf_args.column_density_avk = <<Num(1), Num(1), Num(1)>>
    /\ pf_args.altitude_bounds[2][1] < pf_args.tropopause_altitude
    /\ pf_args.tropopause_altitude < pf_args.altitude_bounds[2][2]
    /\ pf_result["tropospheric"] = <<Num(1), Num(1), Num(0)>>
    /\ pf_result["stratospheric"] = <<Num(0), Num(1), Num(1)>>

\* The regridded partial column, the kernel and the apriori of level n of
\* element e of the smoothed column, both numbered from 0
ColumnLevels == 0..(pf_args.column_avk.dimension[2] - 1)
ColumnIndex(e, n) == e * pf_args.column_avk.dimension[2] + n + 1
PartialColumnOf(e, n) == pf_args.partcol_variable.data[ColumnIndex(e, n)]
KernelOf(e, n) == pf_args.column_avk.data[ColumnIndex(e, n)]
HasPartialColumn(e, n) == PartialColumnOf(e, n) # NaN
HasApriori(e, n) ==
    ~IsNull(pf_args.apriori) /\ pf_args.apriori.data[ColumnIndex(e, n)] # NaN
AprioriOf(e, n) ==
    IF HasApriori(e, n) THEN pf_args.apriori.data[ColumnIndex(e, n)][1] ELSE 0

\* over the levels from n on: the weighted departures from the apriori of
\* the levels that have a partial column, and the apriori values added back
RECURSIVE WeightedColumn(_, _)
WeightedColumn(e, n) ==
    IF n \notin ColumnLevels THEN 0
    ELSE (IF HasPartialColumn(e, n)
          THEN KernelOf(e, n)[1] * (PartialColumnOf(e, n)[1] - AprioriOf(e, n))
          ELSE 0)
         + AprioriOf(e, n) + WeightedColumn(e, n + 1)

SmoothedColumnReturned ==
    pf_fn = "smoothed_column" /\ Returned("column_variable")

\* C20 as stated: element e of the smoothed column is the sum over the
\* levels with a partial column of the kernel times the partial column less
\* the apriori, with the apriori added back, and is NaN when no level has a
\* partial column
C20_NaNWithoutPartialColumn ==
    SmoothedColumnReturned =>
        \A e \in 0..(pf_args.column_avk.dimension[1] - 1) :
            pf_result["column_variable"][e + 1] =
                IF \A n \in ColumnLevels : ~HasPartialColumn(e, n)
                THEN NaN
                ELSE Num(WeightedColumn(e, 0))

\* C20, amended: element e of the smoothed column is the sum over the levels
\* with a partial column of the kernel times the partial column less the
\* apriori, with the apriori added back, and is NaN when no level has a
\* partial column or an apriori value
C20_SmoothedColumn ==
    SmoothedColumnReturned =>
        \A e \in 0..(pf_args.column_avk.dimension[1] - 1) :
            pf_result["column_variable"][e + 1] =
                IF \A n \in ColumnLevels :
                       ~HasPartialColumn(e, n) /\ ~HasApriori(e, n)
                THEN NaN
                ELSE Num(WeightedColumn(e, 0))

\* one element without a partial column but with an apriori, one with
\* partial columns at both levels
C20_Witness ==
    /\ SmoothedColumnReturned
    /\ pf_args.column_avk.data = Ramp(4)
    /\ ~IsNull(pf_args.apriori)
    /\ \A n \in ColumnLevels : ~HasPartialColumn(0, n)
    /\ \E n \in ColumnLevels : HasApriori(0, n)
    /\ \A n \in ColumnLevels : HasPartialColumn(1, n) /\ HasApriori(1, n)
    /\ pf_result["column_variable"][1] # NaN
    /\ pf_result["column_variable"][2] # NaN

\* level n lies on one side of the tropopause: one of the two kernels holds
\* the input element and the other holds 0
OnOneSide(n) ==
    \/ /\ pf_result["tropospheric"][n] = pf_args.column_density_avk[n]
       /\ pf_result["stratospheric"][n] = Num(0)
    \/ /\ pf_result["tropospheric"][n] = Num(0)
       /\ pf_result["stratospheric"][n] = pf_args.column_density_avk[n]

\* the tropopause lies strictly inside level n: both kernels hold the input
\* element
InBoth(n) ==
    /\ pf_result["tropospheric"][n] = pf_args.column_density_avk[n]
    /\ pf_result["stratospheric"][n] = pf_args.column_density_avk[n]

ColumnKernelsReturned == pf_fn = "column_avk" /\ pf_pc = "done"

\* C29 as stated: every level whose upper bound is at or below the
\* tropopause or whose lower bound is at or above it is in one of the two
\* kernels and 0 in the other, and a level that holds the tropopause
\* strictly inside is in both
C29_KernelsPartitionLevels ==
    ColumnKernelsReturned =>
        \A n \in 1..3 :
            LET lower == pf_args.altitude_bounds[n][1]
                upper == pf_args.altitude_bounds[n][2]
                tropopause == pf_args.tropopause_altitude
            IN  /\ (upper <= tropopause \/ lower >= tropopause) => OnOneSide(n)
                /\ (lower < tropopause /\ tropopause < upper) => InBoth(n)

\* C29, amended: the same for the levels whose lower bound is below their
\* upper bound
C29_KernelsPartitionOrderedLevels ==
    ColumnKernelsReturned =>
        \A n \in 1..3 :
            LET lower == pf_args.altitude_bounds[n][1]
                upper == pf_args.altitude_bounds[n][2]
                tropopause == pf_args.tropopause_altitude
            IN  lower < upper =>
                    /\ (upper <= tropopause \/ lower >= tropopause)
                           => OnOneSide(n)
                    /\ (lower < tropopause /\ tropopause < upper)
                           => InBoth(n)

\* the first level below, the second around and the third above the
\* tropopause, for a kernel of ones
C29_Witness ==
    /\ ColumnKernelsReturned
    /\ pf_args.column_density_avk = <<Num(1), Num(1), Num(1)>>
    /\ pf_args.altitude_bounds = <<(<<0, 4>>), (<<4, 8>>), (<<8, 12>>)>>
    /\ pf_args.tropopause_altitude = 6
    /\ OnOneSide(1) /\ InBoth(2) /\ OnOneSide(3)
    /\ Add(pf_result["tropospheric"][2], pf_result["stratospheric"][2])
           = Num(2)

\* level n of block (k, l) holds after the call what it held on entry
LeftAsOnEntry(k, l, n) ==
    ProfileAt(sv_args, sv_buffer, k, l, n)
        = ProfileAt(sv_args, sv_args.variable.data, k, l, n)

\* the levels of block (k, l) that the call must leave alone when the time
\* row has count valid levels: those at or beyond the count, and those whose
\* value less the apriori is NaN
LeftAlone(k, l, count) ==
    \A n \in 0..(Levels(sv_args) - 1) :
        (n >= count \/ Departure(sv_args, k, l, n) = NaN)
            => LeftAsOnEntry(k, l, n)

\* C28: a level whose input value less the apriori is NaN, and a level at or
\* beyond the valid-level count of its time row, holds after the call what it
\* held on entry, whatever the AVK holds
C28_LevelsLeftAsOnEntry ==
    SmoothCallReturned =>
        \A k \in 0..(TimeRows(sv_args) - 1), l \in 0..(Blocks(sv_args) - 1) :
            LeftAlone(k, l, ValidLevels(sv_args, k))

\* the same with the number of levels that the call used for the time row
LevelsBeyondUsedLeftAsOnEntry ==
    SmoothCallReturned =>
        \A k \in 0..(TimeRows(sv_args) - 1), l \in 0..(Blocks(sv_args) - 1) :
            LeftAlone(k, l, sv_levels[k + 1])

StrictlyMonotonic(profile) ==
    \/ \A n \in 1..(Len(profile) - 1) : profile[n] < profile[n + 1]
    \/ \A n \in 1..(Len(profile) - 1) : profile[n] > profile[n + 1]

\* C21: for a strictly monotonic pressure profile in either storage order,
\* harp_profile_pressure_from_gph applied to what
\* harp_profile_gph_from_pressure gave, with the same temperatures, molar
\* masses, surface pressure and surface height, gives the pressure profile
\* back at every level
C21_PressureGphRoundTrip ==
    (/\ pf_fn = "pressure_levels"
     /\ Returned("pressure_again")
     /\ StrictlyMonotonic(pf_args.pressure_profile))
        => pf_result["pressure_again"] = pf_args.pressure_profile

\* a profile stored from the top down, levels with different temperatures
\* and molar masses, taken there and back
C21_Witness ==
    /\ pf_fn = "pressure_levels"
    /\ Returned("pressure_again")
    /\ pf_args.pressure_profile = <<5, 7, 9>>
    /\ pf_args.temperature_profile = <<12, 24, 12>>
    /\ pf_args.molar_mass_air = <<1, 2, 2>>
    /\ pf_result["gph"][1] > pf_result["gph"][2]
    /\ pf_result["gph"][2] > pf_result["gph"][3]
    /\ pf_result["pressure_again"] = <<5, 7, 9>>

\* The four integrators applied to arguments a
AltitudeOf(a) ==
    harp_profile_altitude_from_pressure(a.num_levels, a.pressure_profile,
        a.temperature_profile, a.molar_mass_air, a.surface_pressure,
        a.surface_height, a.latitude)
GphOf(a) ==
    harp_profile_gph_from_pressure(a.num_levels, a.pressure_profile,
        a.temperature_profile, a.molar_mass_air, a.surface_pressure,
        a.surface_height)
PressureByAltitudeOf(a) ==
    harp_profile_pressure_from_altitude(a.num_levels, a.height_profile,
        a.temperature_profile, a.molar_mass_air, a.surface_pressure,
        a.surface_height, a.latitude)
PressureByGphOf(a) ==
    harp_profile_pressure_from_gph(a.num_levels, a.height_profile,
        a.temperature_profile, a.molar_mass_air, a.surface_pressure,
        a.surface_height)

\* the arguments with every array in the other storage order
Reversed(a) ==
    [f \in DOMAIN a |->
        IF f \in {"pressure_profile", "height_profile",
                  "temperature_profile", "molar_mass_air"}
        THEN Reverse(a[f]) ELSE a[f]]

\* the surface is stored first: the greatest pressure or the least height
SurfaceFirst(a) ==
    IF "pressure_profile" \in DOMAIN a
    THEN a.pressure_profile[1] >= a.pressure_profile[a.num_levels]
    ELSE a.height_profile[1] <= a.height_profile[a.num_levels]

FromSurface(a) == IF SurfaceFirst(a) THEN a ELSE Reversed(a)

\* the m levels next to the surface, stored from the surface up
Lowest(a, m) ==
    [f \in DOMAIN a |->
        IF f \in {"pressure_profile", "height_profile",
                  "temperature_profile", "molar_mass_air"}
        THEN SubSeq(FromSurface(a)[f], 1, m)
        ELSE IF f = "num_levels" THEN m ELSE a[f]]

\* result is what the integrator gives for the arguments of the state;
\* other is what it gives for the reversed arguments, and lowest[m] what it
\* gives for the m levels next to the surface alone
OrderIndependent(result, other, lowest) ==
    /\ result = Reverse(other)
    /\ \A m \in 1..pf_args.num_levels :
           lowest[m] = SubSeq(IF SurfaceFirst(pf_args) THEN result
                              ELSE Reverse(result), 1, m)

\* C22: each of the four hydrostatic integrators walks a strictly monotonic
\* profile from the surface outward in either storage order, with the values
\* of the level below at each step, and writes the result of a level at the
\* index of the level: the arguments reversed give the result reversed, and
\* the levels next to the surface alone give the same values for them
C22_SurfaceOutward ==
    /\ (pf_fn = "pressure_levels" /\ Returned("altitude")) =>
           OrderIndependent(pf_result["altitude"],
               AltitudeOf(Reversed(pf_args)),
               [m \in 1..pf_args.num_levels |->
                   AltitudeOf(Lowest(pf_args, m))])
    /\ (pf_fn = "pressure_levels" /\ Returned("gph")) =>
           OrderIndependent(pf_result["gph"], GphOf(Reversed(pf_args)),
               [m \in 1..pf_args.num_levels |-> GphOf(Lowest(pf_args, m))])
    /\ (pf_fn = "height_levels" /\ Returned("by_altitude")) =>
           OrderIndependent(pf_result["by_altitude"],
               PressureByAltitudeOf(Reversed(pf_args)),
               [m \in 1..pf_args.num_levels |->
                   PressureByAltitudeOf(Lowest(pf_args, m))])
    /\ (pf_fn = "height_levels" /\ Returned("by_gph")) =>
           OrderIndependent(pf_result["by_gph"],
               PressureByGphOf(Reversed(pf_args)),
               [m \in 1..pf_args.num_levels |->
                   PressureByGphOf(Lowest(pf_args, m))])

\* a pressure profile stored from the top down whose altitudes come out
\* decreasing with the index
C22_Witness ==
    /\ pf_fn = "pressure_levels"
    /\ Returned("altitude")
    /\ pf_args.pressure_profile = <<5, 7, 9>>
    /\ pf_args.temperature_profile = <<12, 24, 12>>
    /\ pf_args.latitude = 90
    /\ pf_result["altitude"][1] > pf_result["altitude"][2]
    /\ pf_result["altitude"][2] > pf_result["altitude"][3]
    /\ pf_result["altitude"][3] > pf_args.surface_height

\* the C indices that the call read
TropopauseReads ==
    tropopause_reads(pf_args.num_levels, pf_args.altitude_profile,
        pf_args.pressure_profile, pf_args.temperature_profile)

\* C25: an index that the tropopause locator returns lies between 1 and
\* num_levels - 2 and, for a decreasing pressure profile, at a pressure above
\* 5000 Pa and at most 50000 Pa; for fewer than 3 levels, and when no level
\* below the top level has a pressure of at most 50000 Pa, the result is -1;
\* no index outside 0..num_levels - 1 is read
C25_IndexInsideProfileAndWindow ==
    TropopauseReturned =>
        /\ pf_result["index"] >= 0 =>
               /\ pf_result["index"] \in 1..(pf_args.num_levels - 2)
               /\ DecreasingPressure =>
                      /\ Pressure(pf_result["index"]) > MinTropopausePressure
                      /\ Pressure(pf_result["index"]) <= MaxTropopausePressure
        /\ pf_args.num_levels < 3 => pf_result["index"] = -1
        /\ (\A n \in 0..(pf_args.num_levels - 2) :
                Pressure(n) > MaxTropopausePressure)
               => pf_result["index"] = -1
        /\ TropopauseReads \subseteq 0..(pf_args.num_levels - 1)

\* a level is returned whose look-ahead read the top level of the profile
C25_Witness ==
    /\ TropopauseReturned
    /\ DecreasingPressure
    /\ pf_args.num_levels = 4
    /\ pf_result["index"] = 1
    /\ Pressure(0) > MaxTropopausePressure
    /\ 3 \in TropopauseReads

\* C26 speaks of profiles whose altitude does not decrease; the layer above
\* level n is thick when its height is at least EPSILON
NonDecreasing ==
    \A n \in 0..(pf_args.num_levels - 2) : Altitude(n) <= Altitude(n + 1)
Thick(n) == Altitude(n + 1) - Altitude(n) >= EPSILON

\* the first level of the pressure window
FirstLevel ==
    LET window == {n \in 1..(pf_args.num_levels - 2) :
                      Pressure(n) <= MaxTropopausePressure}
    IN  CHOOSE n \in window : \A m \in window : n <= m

\* the lapse rate of the nearest thick layer among the layers top and below
\* that the scan has met, NaN when it has met none
NearestLapse(top) ==
    LET met == {n \in (FirstLevel - 1)..top : Thick(n)}
    IN  IF met = {} THEN NaN
        ELSE Num(LapseAbove(CHOOSE n \in met : \A m \in met : m <= n))

ThickHigherLevels(n) == {k \in HigherLevels(n) : Thick(k - 1)}

\* level n qualifies when the thin layers take the lapse rate of the layer
\* before them and are left out of the average
QualifiesPastThinLayers(n) ==
    /\ n \in FirstLevel..(pf_args.num_levels - 2)
    /\ Pressure(n) > MinTropopausePressure
    /\ GreaterThan(NearestLapse(n - 1), MaxLapseRate)
    /\ AtMost(NearestLapse(n), MaxLapseRate)
    /\ SumOfLapses(ThickHigherLevels(n))
           <= MaxLapseRate * Cardinality(ThickHigherLevels(n))

LevelsPastThinLayers ==
    IF \A n \in 1..(pf_args.num_levels - 2) :
           Pressure(n) > MaxTropopausePressure
    THEN {}
    ELSE {n \in 1..(pf_args.num_levels - 2) : QualifiesPastThinLayers(n)}

\* C26: a layer of a height in [0, EPSILON) does not end the scan: for an
\* altitude that does not decrease the locator returns the lowest level
\* that qualifies when such a layer has the lapse rate of the layer before
\* it and is left out of the look-ahead average, and -1 only when no level
\* qualifies
C26_ThinLayersSkipped ==
    (TropopauseReturned /\ NonDecreasing /\ DecreasingPressure) =>
        /\ LevelsPastThinLayers = {} => pf_result["index"] = -1
        /\ LevelsPastThinLayers # {} =>
               /\ pf_result["index"] \in LevelsPastThinLayers
               /\ \A n \in LevelsPastThinLayers : pf_result["index"] <= n

\* a thin layer above level 1, which passes the lapse rate of the layer
\* below it on to level 2, a level that is returned
C26_Witness ==
    /\ TropopauseReturned /\ NonDecreasing /\ DecreasingPressure
    /\ pf_args.num_levels = 4
    /\ Pressure(1) <= MaxTropopausePressure
    /\ Thick(0) /\ ~Thick(1) /\ Thick(2)
    /\ Altitude(2) > Altitude(1)
    /\ pf_result["index"] = 2

\* C17, for layers of at least EPSILON: for an altitude that increases by
\* at least EPSILON from every level to the next and decreasing pressure the
\* tropopause locator returns the lowest level of the pressure window at
\* which the lapse rate below exceeds 0.002 K/m, the lapse rate above does
\* not, and the average lapse rate over the higher levels within 2 km does
\* not; it returns -1 when no level qualifies, and the level of 11000 m for
\* the standard atmosphere of 21 levels
C17_LowestQualifyingLevelOfThickLayers ==
    (/\ TropopauseReturned
     /\ \A n \in 0..(pf_args.num_levels - 2) : Thick(n)) =>
        C17_LowestQualifyingLevel

(***************************************************************************)
(* ECMWF GRIB ingestion (harp-ingest-ecmwf-grib.c): init_cursors_and_grid  *)
(* walks the messages of the file, then fills grid_data_index; the         *)
(* exclude_ and read_ callbacks run on the ingest_info it leaves.          *)
(* CODA is taken to read every field without error and malloc to succeed.  *)
(***************************************************************************)

\* enum grib_parameter: the parameters that the files below carry
grib_param_unknown == 0 - 1
grib_param_t == 3
grib_param_q == 4
grib_param_lnsp == 7
grib_param_aod550 == 31
grib_param_aod469 == 37
NUM_GRIB_PARAMETERS == 56

\* param_is_profile[param]
param_is_profile(param) ==
    param \in {3, 4, 6, 14, 15, 16, 17, 21, 22, 23, 24, 29,
               41, 42, 43, 44, 45, 46, 47}

\* the rows of the GRIB1 table for the parameters above
get_grib1_parameter(parameter_ref) ==
    LET table2Version == (parameter_ref \div 256) % 256
        indicatorOfParameter == parameter_ref % 256
    IN  CASE table2Version = 128 /\ indicatorOfParameter = 130 -> grib_param_t
          [] table2Version = 128 /\ indicatorOfParameter = 133 -> grib_param_q
          [] table2Version = 128 /\ indicatorOfParameter = 152 ->
                 grib_param_lnsp
          [] table2Version = 210 /\ indicatorOfParameter = 207 ->
                 grib_param_aod550
          [] table2Version = 210 /\ indicatorOfParameter = 213 ->
                 grib_param_aod469
          [] OTHER -> grib_param_unknown

\* the rows of the GRIB2 table for the parameters above
get_grib2_parameter(parameter_ref) ==
    LET discipline == (parameter_ref \div 65536) % 256
        parameterCategory == (parameter_ref \div 256) % 256
        parameterNumber == parameter_ref % 256
    IN  CASE discipline = 0 /\ parameterCategory = 0 /\ parameterNumber = 0 ->
                 grib_param_t
          [] discipline = 0 /\ parameterCategory = 1 /\ parameterNumber = 0 ->
                 grib_param_q
          [] discipline = 0 /\ parameterCategory = 3 /\ parameterNumber = 25 ->
                 grib_param_lnsp
          [] discipline = 192 /\ parameterCategory = 210
                 /\ parameterNumber = 207 -> grib_param_aod550
          [] discipline = 192 /\ parameterCategory = 210
                 /\ parameterNumber = 213 -> grib_param_aod469
          [] OTHER -> grib_param_unknown

\* parameter_ref >> 24 is the GRIB version, parameter_ref & 0xffffff the rest
get_grib_parameter(parameter_ref) ==
    IF parameter_ref \div 16777216 = 1
    THEN get_grib1_parameter(parameter_ref % 16777216)
    ELSE get_grib2_parameter(parameter_ref % 16777216)

\* ingest_info_new: has_parameter is the set of the parameters p with
\* has_parameter[p] = 1; coordinate_values is NULL or holds num values;
\* grid_data_index is <<>> until it is allocated
ingest_info_new ==
    [num_messages |-> 0, num_grid_data |-> 0,
     grid_data_parameter_ref |-> <<>>, level |-> <<>>,
     wavelength |-> NaN, datetime |-> 0, reference_datetime |-> 0,
     Ni |-> 0, Nj |-> 0,
     latitudeOfFirstGridPoint |-> 0, longitudeOfFirstGridPoint |-> 0,
     latitudeOfLastGridPoint |-> 0, longitudeOfLastGridPoint |-> 0,
     iDirectionIncrement |-> 0, jDirectionIncrement |-> 0, N |-> 0,
     is_gaussian |-> 0, grid_grib_version |-> 0,
     num_levels |-> 1, num_grib_levels |-> 0,
     coordinate_values |-> [null |-> TRUE, num |-> 0],
     has_parameter |-> {}, grid_data_index |-> <<>>]

\* harp_set_error and return -1, inside the walk over the messages
Failure(c, message) == [c EXCEPT !.error = message]

\* GRIB1 values times 1e3, to align them with the GRIB2 values
aligned_grid(section, grib_version) ==
    IF grib_version = 1
    THEN [section EXCEPT !.latitudeOfFirstGridPoint = @ * 1000,
                         !.longitudeOfFirstGridPoint = @ * 1000,
                         !.latitudeOfLastGridPoint = @ * 1000,
                         !.longitudeOfLastGridPoint = @ * 1000,
                         !.iDirectionIncrement = @ * 1000,
                         !.jDirectionIncrement = @ * 1000]
    ELSE section

\* fabs((double)(a - b)) > 1e3 for int32_t a, b
signed_beyond_tolerance(a, b) == (IF a >= b THEN a - b ELSE b - a) > 1000

\* fabs((double)(a - b)) > 1e3 for uint32_t a, b: for a < b the difference
\* wraps to 2^32 - (b - a), which is beyond 1e3 for the increments of a
\* grid (at most 360e6)
unsigned_beyond_tolerance(a, b) == IF a >= b THEN a - b > 1000 ELSE TRUE

\* the error of get_lat_lon_grid for the aligned grid g, "" when none
lat_lon_grid_error(info, g, grib_version, first) ==
    IF first
    THEN IF g.longitudeOfFirstGridPoint > g.longitudeOfLastGridPoint
         THEN "longitude grid is not in ascending order"
         ELSE IF g.latitudeOfFirstGridPoint < g.latitudeOfLastGridPoint
         THEN "latitude grid is not in descending order"
         ELSE IF g.is_gaussian = 1 /\ g.N # g.Nj \div 2
         THEN "invalid value for N for Gaussian grid"
         ELSE ""
    ELSE IF g.Ni # info.Ni \/ g.Nj # info.Nj
    THEN "not all lat/lon grids in the GRIB file have the same size"
    ELSE IF g.is_gaussian # info.is_gaussian
    THEN "not all lat/lon grids in the GRIB file use the same grid type"
    ELSE IF info.grid_grib_version # grib_version
    THEN IF \/ signed_beyond_tolerance(g.longitudeOfFirstGridPoint,
                                       info.longitudeOfFirstGridPoint)
            \/ signed_beyond_tolerance(g.longitudeOfLastGridPoint,
                                       info.longitudeOfLastGridPoint)
            \/ unsigned_beyond_tolerance(g.iDirectionIncrement,
                                         info.iDirectionIncrement)
         THEN "not all longitude grids in the GRIB file are the same"
         ELSE IF \/ signed_beyond_tolerance(g.latitudeOfFirstGridPoint,
                                            info.latitudeOfFirstGridPoint)
                 \/ signed_beyond_tolerance(g.latitudeOfLastGridPoint,
                                            info.latitudeOfLastGridPoint)
                 \/ unsigned_beyond_tolerance(g.jDirectionIncrement,
                                              info.jDirectionIncrement)
                 \/ g.N # info.N
         THEN "not all latitude grids in the GRIB file are the same"
         ELSE ""
    ELSE IF \/ g.longitudeOfFirstGridPoint # info.longitudeOfFirstGridPoint
            \/ g.longitudeOfLastGridPoint # info.longitudeOfLastGridPoint
            \/ g.iDirectionIncrement # info.iDirectionIncrement
    THEN "not all longitude grids in the GRIB file are the same"
    ELSE IF \/ g.latitudeOfFirstGridPoint # info.latitudeOfFirstGridPoint
            \/ g.latitudeOfLastGridPoint # info.latitudeOfLastGridPoint
            \/ g.jDirectionIncrement # info.jDirectionIncrement
            \/ g.N # info.N
    THEN "not all latitude grids in the GRIB file are the same"
    ELSE ""

\* get_lat_lon_grid: the first grid is taken over, a later one is compared
\* and, when it is of GRIB2 and the grid kept is of GRIB1, preferred
get_lat_lon_grid(c, section, grib_version, first) ==
    LET g == aligned_grid(section, grib_version)
        error == lat_lon_grid_error(c.info, g, grib_version, first)
        taken == [c.info EXCEPT
                     !.Ni = g.Ni, !.Nj = g.Nj,
                     !.latitudeOfFirstGridPoint = g.latitudeOfFirstGridPoint,
                     !.longitudeOfFirstGridPoint = g.longitudeOfFirstGridPoint,
                     !.latitudeOfLastGridPoint = g.latitudeOfLastGridPoint,
                     !.longitudeOfLastGridPoint = g.longitudeOfLastGridPoint,
                     !.iDirectionIncrement = g.iDirectionIncrement,
                     !.jDirectionIncrement = g.jDirectionIncrement,
                     !.N = g.N, !.is_gaussian = g.is_gaussian,
                     !.grid_grib_version = grib_version]
        preferred == [c.info EXCEPT
                     !.latitudeOfFirstGridPoint = g.latitudeOfFirstGridPoint,
                     !.longitudeOfFirstGridPoint = g.longitudeOfFirstGridPoint,
                     !.latitudeOfLastGridPoint = g.latitudeOfLastGridPoint,
                     !.longitudeOfLastGridPoint = g.longitudeOfLastGridPoint,
                     !.iDirectionIncrement = g.iDirectionIncrement,
                     !.jDirectionIncrement = g.jDirectionIncrement,
                     !.grid_grib_version = grib_version]
    IN  IF first
        THEN Failure([c EXCEPT !.info = taken], error)
        ELSE IF error # "" THEN Failure(c, error)
        ELSE IF c.info.grid_grib_version # grib_version /\ grib_version = 2
        THEN [c EXCEPT !.info = preferred]
        ELSE c

\* the loop over the grid sections of a GRIB2 message: the cursor is moved
\* to the next section after the loop only, so every pass reads the first
RECURSIVE grib2_grid_sections(_, _, _, _)
grib2_grid_sections(c, message, first_message, n) ==
    IF c.error # "" \/ ~(n < Len(message.grid)) THEN c
    ELSE grib2_grid_sections(
             get_lat_lon_grid(c, message.grid[1], 2, first_message /\ n = 0),
             message, first_message, n + 1)

\* the time of the first data is kept, the time of every other compared
check_datetime(c, datetime) ==
    IF ~c.datetime_initialised
    THEN [c EXCEPT !.info.datetime = datetime, !.datetime_initialised = TRUE]
    ELSE IF c.info.datetime # datetime
    THEN Failure(c, "not all data in the GRIB file is for the same time")
    ELSE c

\* the first coordinateValues met give num_grib_levels, every other is
\* compared by its number of values
check_coordinate_values(c, num_coordinate_values) ==
    IF c.info.coordinate_values.null
    THEN [c EXCEPT !.info.num_grib_levels = (num_coordinate_values \div 2) - 1,
                   !.info.coordinate_values =
                       [null |-> FALSE, num |-> num_coordinate_values]]
    ELSE IF num_coordinate_values # 2 * (c.info.num_grib_levels + 1)
    THEN Failure(c, "not all data in the GRIB file has the same number of vertical levels")
    ELSE c

\* the loop over the data sections of a GRIB2 message; parameter_ref is
\* the variable of the enclosing loop and is added to in every pass
RECURSIVE grib2_data_sections(_, _, _)
grib2_data_sections(c, message, n) ==
    IF c.error # "" \/ ~(n < Len(message.data)) THEN c
    ELSE LET data == message.data[n + 1]
             parameter_ref == c.parameter_ref + data.parameterCategory * 256
                                  + data.parameterNumber
             parameter == get_grib_parameter(parameter_ref)
             stored == [c EXCEPT
                 !.parameter_ref = parameter_ref,
                 !.info.grid_data_parameter_ref[c.parameter_index + 1] =
                     parameter_ref]
             timed == check_datetime(stored,
                 c.info.reference_datetime + data.forecast_time)
             levelled ==
                 IF timed.error # "" \/ parameter = grib_param_unknown
                 THEN timed
                 ELSE IF data.typeOfFirstFixedSurface # 105
                 THEN Failure(timed, "unsupported value for 'type of first fixed surface'")
                 ELSE LET read == [timed EXCEPT
                              !.info.level[c.parameter_index + 1] =
                                  data.firstFixedSurface]
                      IN  IF data.firstFixedSurface # 1
                          THEN check_coordinate_values(read,
                                   data.num_coordinate_values)
                          ELSE read
             advanced ==
                 IF levelled.error = "" /\ n < Len(message.data) - 1
                 THEN [levelled EXCEPT !.parameter_index = @ + 1]
                 ELSE levelled
         IN  grib2_data_sections(advanced, message, n + 1)

\* one pass of the loop over the messages, for a GRIB2 message
grib2_message(c, message, first_message) ==
    LET dated == [c EXCEPT
            !.info.reference_datetime = message.reference_datetime,
            !.parameter_ref = 2 * 16777216 + message.discipline * 256 * 256]
        gridded ==
            IF Len(message.grid) = 0
            THEN Failure(dated, "missing grid section for GRIB message")
            ELSE grib2_grid_sections(dated, message, first_message, 0)
        read == grib2_data_sections(gridded, message, 0)
    IN  IF read.error # "" THEN read
        ELSE [read EXCEPT !.parameter_index = @ + 1]

\* one pass of the loop over the messages, for a GRIB1 message
grib1_message(c, message, first_message) ==
    LET dated == [c EXCEPT
            !.info.reference_datetime = message.reference_datetime]
        gridded == get_lat_lon_grid(dated, message.grid, 1, first_message)
        parameter_ref == 16777216 + message.table2Version * 256
                             + message.indicatorOfParameter
        stored == [gridded EXCEPT
            !.parameter_ref = parameter_ref,
            !.info.grid_data_parameter_ref[c.parameter_index + 1] =
                parameter_ref]
        timed == check_datetime(stored, stored.info.reference_datetime)
        levelled ==
            IF timed.error # "" THEN timed
            ELSE IF message.indicatorOfTypeOfLevel \notin {1, 109}
            THEN Failure(timed, "unsupported value for 'type of level'")
            ELSE IF message.indicatorOfTypeOfLevel = 109 /\ message.level # 1
            THEN check_coordinate_values(timed, message.num_coordinate_values)
            ELSE timed
    IN  IF gridded.error # "" THEN gridded
        ELSE IF levelled.error # "" THEN levelled
        ELSE [levelled EXCEPT
                 !.info.level[c.parameter_index + 1] = message.level,
                 !.parameter_index = @ + 1]

\* get_num_grid_data: one grid data for a GRIB1 message, one for every data
\* section of a GRIB2 message
RECURSIVE num_grid_data_of(_)
num_grid_data_of(file) ==
    IF file = <<>> THEN 0
    ELSE (IF Head(file).grib_version = 1 THEN 1 ELSE Len(Head(file).data))
         + num_grid_data_of(Tail(file))

get_num_grid_data_error(file) ==
    IF \E n \in 1..Len(file) :
           file[n].grib_version = 2 /\ Len(file[n].data) = 0
    THEN "missing data section for GRIB2 message"
    ELSE ""

\* one pass of the loop that fills grid_data_index, for grid data n
index_grid_data(info, n) ==
    LET param == get_grib_parameter(info.grid_data_parameter_ref[n + 1])
        level == IF param_is_profile(param) THEN info.level[n + 1] ELSE 1
        at == param * info.num_levels + level - 1
    IN  IF param = grib_param_unknown THEN [info |-> info, error |-> ""]
        ELSE IF param_is_profile(param) /\
                (info.level[n + 1] < 1 \/
                 info.level[n + 1] > info.num_grib_levels)
        THEN [info |-> info, error |-> "invalid level value for parameter"]
        ELSE IF ~param_is_profile(param) /\ info.level[n + 1] \notin {0, 1}
        THEN [info |-> info,
              error |-> "invalid level value for surface parameter"]
        ELSE IF info.grid_data_index[at] # 0 - 1
        THEN [info |-> [info EXCEPT !.has_parameter = @ \cup {param}],
              error |-> "parameter and level occur more than once in file"]
        ELSE [info |-> [info EXCEPT !.has_parameter = @ \cup {param},
                                    !.grid_data_index[at] = n],
              error |-> ""]

\* exclude_wavelength, exclude_aod and the exclude_ function of a parameter
exclude_wavelength(info) == IF harp_isnan(info.wavelength) THEN 1 ELSE 0

exclude_aod(info) ==
    IF grib_param_aod550 \in info.has_parameter THEN 0
    ELSE IF grib_param_aod469 \in info.has_parameter THEN 0
    ELSE 1

exclude_parameter(info, parameter) ==
    IF parameter \in info.has_parameter THEN 0 ELSE 1

\* read_grid_data: the grid data read and assert(grid_data_index >= 0)
read_grid_data(info, grid_data_index) ==
    [grid_data |-> grid_data_index, assertion |-> grid_data_index >= 0]

read_2d_grid_data(info, parameter) ==
    <<read_grid_data(info, info.grid_data_index[parameter * info.num_levels])>>

\* the loop over the levels, which ends at the first read that fails
RECURSIVE read_3d_levels(_, _, _)
read_3d_levels(info, parameter, n) ==
    IF ~(n < info.num_levels) THEN <<>>
    ELSE LET read == read_grid_data(info,
                 info.grid_data_index[(parameter + 1) * info.num_levels
                                          - 1 - n])
         IN  IF read.assertion
             THEN <<read>> \o read_3d_levels(info, parameter, n + 1)
             ELSE <<read>>

read_3d_grid_data(info, parameter) == read_3d_levels(info, parameter, 0)

read_aod(info) ==
    IF grib_param_aod550 \in info.has_parameter
    THEN read_2d_grid_data(info, grib_param_aod550)
    ELSE read_2d_grid_data(info, grib_param_aod469)

\* ---- the files ----
MaxMessages == 3

Grid(Ni, longitudeOfFirstGridPoint, unit) ==
    [Ni |-> Ni, Nj |-> 2, is_gaussian |-> 0, N |-> 0,
     latitudeOfFirstGridPoint |-> unit,
     longitudeOfFirstGridPoint |-> longitudeOfFirstGridPoint,
     latitudeOfLastGridPoint |-> 0,
     longitudeOfLastGridPoint |-> longitudeOfFirstGridPoint + (Ni - 1) * unit,
     iDirectionIncrement |-> unit, jDirectionIncrement |-> unit]

Grib1(reference_datetime, grid, table2Version, indicatorOfParameter, indicatorOfTypeOfLevel, level, num_coordinate_values) ==
    [grib_version |-> 1, reference_datetime |-> reference_datetime,
     grid |-> grid, table2Version |-> table2Version,
     indicatorOfParameter |-> indicatorOfParameter,
     indicatorOfTypeOfLevel |-> indicatorOfTypeOfLevel, level |-> level,
     num_coordinate_values |-> num_coordinate_values]

Data(parameterCategory, parameterNumber, forecast_time, firstFixedSurface, num_coordinate_values) ==
    [parameterCategory |-> parameterCategory,
     parameterNumber |-> parameterNumber, forecast_time |-> forecast_time,
     typeOfFirstFixedSurface |-> 105,
     firstFixedSurface |-> firstFixedSurface,
     num_coordinate_values |-> num_coordinate_values]

Grib2(discipline, grid, data) ==
    [grib_version |-> 2, reference_datetime |-> 0,
     discipline |-> discipline, grid |-> grid, data |-> data]

\* GRIB1 messages: temperature on hybrid level 1 and 2 of 2 levels, on
\* level 2 of 3 levels, at a later time and on a grid shifted by 0.001
\* degree; surface pressure; AOD at 550 and at 469 nm
Grib1Messages ==
    {Grib1(0, Grid(2, 0, 1), 128, 130, 109, 1, 6),
     Grib1(0, Grid(2, 0, 1), 128, 130, 109, 2, 6),
     Grib1(0, Grid(2, 0, 1), 128, 130, 109, 2, 8),
     Grib1(1, Grid(2, 0, 1), 128, 130, 109, 2, 6),
     Grib1(0, Grid(2, 1, 1), 128, 152, 1, 0, 0),
     Grib1(0, Grid(2, 0, 1), 128, 152, 1, 0, 0),
     Grib1(0, Grid(2, 0, 1), 210, 207, 1, 0, 0),
     Grib1(0, Grid(2, 0, 1), 210, 213, 1, 0, 0)}

\* GRIB2 messages: humidity and temperature in two data sections; surface
\* pressure with a second grid section of another size; AOD at 550 and at
\* 469 nm in two data sections; surface pressure on a grid that is
\* 0.0005 degree off and on a grid of another size
Grib2Messages ==
    {Grib2(0, <<Grid(2, 0, 1000)>>,
           <<Data(1, 0, 0, 1, 6), Data(0, 0, 0, 2, 6)>>),
     Grib2(0, <<Grid(2, 0, 1000), Grid(3, 0, 1000)>>,
           <<Data(3, 25, 0, 1, 0)>>),
     Grib2(192, <<Grid(2, 0, 1000)>>,
           <<Data(210, 207, 0, 1, 0), Data(210, 213, 0, 1, 0)>>),
     Grib2(0, <<Grid(2, 500, 1000)>>, <<Data(3, 25, 0, 1, 0)>>),
     Grib2(0, <<Grid(3, 0, 1000)>>, <<Data(3, 25, 0, 1, 0)>>)}

GribFiles ==
    UNION {[1..n -> Grib1Messages \cup Grib2Messages] : n \in 1..MaxMessages}

\* ---- the specification ----
GribCursor ==
    [info |-> grib_info, parameter_index |-> grib_parameter_index,
     datetime_initialised |-> grib_datetime_initialised,
     parameter_ref |-> 0, error |-> ""]

InitGrib ==
    /\ grib_product \in GribFiles
    /\ grib_info = ingest_info_new
    /\ grib_i = 0
    /\ grib_parameter_index = 0
    /\ grib_datetime_initialised = FALSE
    /\ grib_pc = "init"
    /\ grib_error = ""
    /\ grib_call = NoCall
    /\ OrchIdle
    /\ SmoothIdle
    /\ ProfileIdle

\* the step of init_cursors_and_grid that leaves the cursor c
GribStep(c, next_pc) ==
    /\ grib_info' = c.info
    /\ grib_parameter_index' = c.parameter_index
    /\ grib_datetime_initialised' = c.datetime_initialised
    /\ grib_error' = c.error
    /\ grib_pc' = IF c.error # "" THEN "error" ELSE next_pc
    /\ UNCHANGED <<grib_product, grib_call, orch_vars, smooth_vars,
                   profile_vars>>

\* init_cursors_and_grid up to the loop over the messages
GetNumGridData ==
    /\ grib_pc = "init"
    /\ grib_i' = 0
    /\ GribStep(
           Failure([GribCursor EXCEPT
               !.info.num_messages = Len(grib_product),
               !.info.num_grid_data = num_grid_data_of(grib_product),
               !.info.grid_data_parameter_ref =
                   [n \in 1..num_grid_data_of(grib_product) |-> 0],
               !.info.level =
                   [n \in 1..num_grid_data_of(grib_product) |-> 0]],
               get_num_grid_data_error(grib_product)),
           "messages")

Grib1Message ==
    /\ grib_pc = "messages"
    /\ grib_i < grib_info.num_messages
    /\ grib_product[grib_i + 1].grib_version = 1
    /\ grib_i' = grib_i + 1
    /\ GribStep(grib1_message(GribCursor, grib_product[grib_i + 1],
                              grib_i = 0),
                "messages")

Grib2Message ==
    /\ grib_pc = "messages"
    /\ grib_i < grib_info.num_messages
    /\ grib_product[grib_i + 1].grib_version = 2
    /\ grib_i' = grib_i + 1
    /\ GribStep(grib2_message(GribCursor, grib_product[grib_i + 1],
                              grib_i = 0),
                "messages")

\* num_levels and the grid_data_index of invalid values
AllocateGridDataIndex ==
    /\ grib_pc = "messages"
    /\ grib_i = grib_info.num_messages
    /\ grib_i' = 0
    /\ LET num_levels == IF grib_info.num_grib_levels > 0
                         THEN grib_info.num_grib_levels ELSE 1
       IN  GribStep([GribCursor EXCEPT
                        !.info.num_levels = num_levels,
                        !.info.grid_data_index =
                            [n \in 0..(NUM_GRIB_PARAMETERS * num_levels - 1)
                                |-> 0 - 1]],
                    "grid data")

IndexGridData ==
    /\ grib_pc = "grid data"
    /\ grib_i < grib_info.num_grid_data
    /\ grib_i' = grib_i + 1
    /\ LET indexed == index_grid_data(grib_info, grib_i)
       IN  GribStep([GribCursor EXCEPT !.info = indexed.info,
                                       !.error = indexed.error],
                    "grid data")

\* init_cursors_and_grid and ingestion_init return 0
IngestionInit ==
    /\ grib_pc = "grid data"
    /\ grib_i = grib_info.num_grid_data
    /\ grib_pc' = "done"
    /\ UNCHANGED <<grib_product, grib_info, grib_i, grib_parameter_index,
                   grib_datetime_initialised, grib_error, grib_call,
                   orch_vars, smooth_vars, profile_vars>>

\* a callback of the ingestion runs on the info
GribCall(name, result) ==
    /\ grib_pc = "done"
    /\ grib_call' = [name |-> name, result |-> result]
    /\ UNCHANGED <<grib_product, grib_info, grib_i, grib_parameter_index,
                   grib_datetime_initialised, grib_error, grib_pc,
                   orch_vars, smooth_vars, profile_vars>>

ExcludeWavelength ==
    /\ grib_pc = "done"
    /\ GribCall("exclude_wavelength", <<exclude_wavelength(grib_info)>>)

ExcludeAod ==
    /\ grib_pc = "done"
    /\ GribCall("exclude_aod", <<exclude_aod(grib_info)>>)

\* a variable is read only when its exclude_ function returned 0
ReadAod ==
    /\ exclude_aod(grib_info) = 0
    /\ GribCall("read_aod", read_aod(grib_info))

ReadSurface ==
    /\ exclude_parameter(grib_info, grib_param_lnsp) = 0
    /\ GribCall("read_lnsp", read_2d_grid_data(grib_info, grib_param_lnsp))

ReadProfile ==
    \E parameter \in {grib_param_t, grib_param_q} :
        /\ exclude_parameter(grib_info, parameter) = 0
        /\ GribCall(IF parameter = grib_param_t THEN "read_t" ELSE "read_q",
                    read_3d_grid_data(grib_info, parameter))

NextGrib ==
    \/ GetNumGridData
    \/ Grib1Message
    \/ Grib2Message
    \/ AllocateGridDataIndex
    \/ IndexGridData
    \/ IngestionInit
    \/ ExcludeWavelength
    \/ ExcludeAod
    \/ ReadAod
    \/ ReadSurface
    \/ ReadProfile

SpecGrib == InitGrib /\ [][NextGrib]_vars

\* ---- Properties of the GRIB ingestion ----
Ingested == grib_pc = "done"

\* the grid data of a file in the order of the file, each with its time,
\* the parameter reference of its own fields and the number of hybrid
\* levels that its coordinate values give (0 for data on level 1 or on
\* the surface, whose coordinate values are not looked at)
RECURSIVE GridDataOf(_)
GridDataOf(file) ==
    IF file = <<>> THEN <<>>
    ELSE LET message == Head(file)
         IN  (IF message.grib_version = 1
              THEN <<[time |-> message.reference_datetime,
                      parameter_ref |->
                          (1 * 256 * 256 + message.table2Version) * 256
                              + message.indicatorOfParameter,
                      level |-> message.level,
                      hybrid_levels |->
                          IF message.indicatorOfTypeOfLevel = 109
                                 /\ message.level # 1
                          THEN (message.num_coordinate_values \div 2) - 1
                          ELSE 0]>>
              ELSE [n \in 1..Len(message.data) |->
                     [time |-> message.reference_datetime
                                   + message.data[n].forecast_time,
                      parameter_ref |->
                          ((2 * 256 + message.discipline) * 256
                               + message.data[n].parameterCategory) * 256
                              + message.data[n].parameterNumber,
                      level |-> message.data[n].firstFixedSurface,
                      hybrid_levels |->
                          IF message.data[n].firstFixedSurface # 1
                          THEN (message.data[n].num_coordinate_values
                                    \div 2) - 1
                          ELSE 0]])
             \o GridDataOf(Tail(file))

\* every grid section of a file, aligned, with the version of its message
GridsOf(file) ==
    {[grib_version |-> 1, grid |-> aligned_grid(file[n].grid, 1)] :
        n \in {m \in 1..Len(file) : file[m].grib_version = 1}}
    \cup UNION {
        {[grib_version |-> 2, grid |-> file[n].grid[k]] :
            k \in 1..Len(file[n].grid)} :
        n \in {m \in 1..Len(file) : file[m].grib_version = 2}}

Near(a, b) == a - b <= 1000 /\ b - a <= 1000

\* two grid sections give the same grid: equal between messages of one
\* version, equal to the resolution of GRIB1 between the two versions
SameGrid(a, b) ==
    /\ a.grid.Ni = b.grid.Ni /\ a.grid.Nj = b.grid.Nj
    /\ a.grid.is_gaussian = b.grid.is_gaussian /\ a.grid.N = b.grid.N
    /\ IF a.grib_version = b.grib_version THEN a.grid = b.grid
       ELSE /\ Near(a.grid.latitudeOfFirstGridPoint,
                    b.grid.latitudeOfFirstGridPoint)
            /\ Near(a.grid.longitudeOfFirstGridPoint,
                    b.grid.longitudeOfFirstGridPoint)
            /\ Near(a.grid.latitudeOfLastGridPoint,
                    b.grid.latitudeOfLastGridPoint)
            /\ Near(a.grid.longitudeOfLastGridPoint,
                    b.grid.longitudeOfLastGridPoint)
            /\ Near(a.grid.iDirectionIncrement, b.grid.iDirectionIncrement)
            /\ Near(a.grid.jDirectionIncrement, b.grid.jDirectionIncrement)

GridData == GridDataOf(grib_product)

SameTime ==
    \A a, b \in 1..Len(GridData) : GridData[a].time = GridData[b].time
SameGrids ==
    \A a, b \in GridsOf(grib_product) : SameGrid(a, b)
SameLevels ==
    \A a, b \in 1..Len(GridData) :
        (GridData[a].hybrid_levels # 0 /\ GridData[b].hybrid_levels # 0) =>
            GridData[a].hybrid_levels = GridData[b].hybrid_levels

\* C23: the initialisation of the ingestion fails whenever the messages of
\* the file do not all have the same time, the same lat/lon grid or the
\* same number of vertical levels, for every message and every grid and
\* data section of a GRIB2 message: a file that is ingested has one time,
\* one grid and one number of levels
C23_OneTimeGridAndLevels ==
    Ingested => (SameTime /\ SameGrids /\ SameLevels)

\* the time and the number of levels are compared for every grid data
C23_OneTimeAndLevels ==
    Ingested => (SameTime /\ SameLevels)

AodParameters == {grib_param_aod550, grib_param_aod469}
AodsPresent == grib_info.has_parameter \cap AodParameters
WavelengthOf(parameter) ==
    IF parameter = grib_param_aod550 THEN 550 ELSE 469

\* C24: when an AOD is present in the file the wavelength variable is
\* included and holds the wavelength of that AOD, and no file is ingested
\* with AODs at more than one wavelength
C24_WavelengthOfTheAod ==
    Ingested =>
        /\ Cardinality(AodsPresent) <= 1
        /\ AodsPresent # {} =>
               /\ exclude_wavelength(grib_info) = 0
               /\ \E parameter \in AodsPresent :
                      grib_info.wavelength = Num(WavelengthOf(parameter))

\* C27: every grid data has, at its place in the order of the file, the
\* parameter reference computed from its own fields
C27_ParameterRefOfOwnFields ==
    Ingested =>
        /\ grib_info.num_grid_data = Len(GridData)
        /\ \A n \in 1..Len(GridData) :
               grib_info.grid_data_parameter_ref[n]
                   = GridData[n].parameter_ref

\* the grid data are stored at consecutive places, and the first grid
\* data of every message has the reference of its own fields
FirstOfMessage(n) ==
    \E m \in 1..Len(grib_product) :
        n = num_grid_data_of(SubSeq(grib_product, 1, m - 1)) + 1
C27_FirstParameterRefOfOwnFields ==
    Ingested =>
        /\ grib_info.num_grid_data = Len(GridData)
        /\ grib_parameter_index = Len(GridData)
        /\ \A n \in 1..Len(GridData) :
               FirstOfMessage(n) =>
                   grib_info.grid_data_parameter_ref[n]
                       = GridData[n].parameter_ref

GridDataIndex(parameter, level) ==
    grib_info.grid_data_index[parameter * grib_info.num_levels + level]

ReadCalls == {"read_aod", "read_lnsp", "read_t", "read_q"}

\* C30: after a successful initialisation a surface parameter that is
\* present has a grid data at level 0 and a profile parameter that is
\* present has one at every level, so that no read fails the assertion of
\* read_grid_data; and every grid data of a known parameter is the one
\* that its parameter and level index
C30_EveryLevelIndexed ==
    Ingested =>
        /\ \A parameter \in grib_info.has_parameter :
               IF param_is_profile(parameter)
               THEN \A level \in 0..(grib_info.num_levels - 1) :
                        GridDataIndex(parameter, level) >= 0
               ELSE GridDataIndex(parameter, 0) >= 0
        /\ grib_call.name \in ReadCalls =>
               \A n \in 1..Len(grib_call.result) :
                   grib_call.result[n].assertion
        /\ \A n \in 1..grib_info.num_grid_data :
               LET parameter ==
                       get_grib_parameter(grib_info.grid_data_parameter_ref[n])
               IN  parameter # grib_param_unknown =>
                       GridDataIndex(parameter,
                           IF param_is_profile(parameter)
                           THEN grib_info.level[n] - 1 ELSE 0) = n - 1

\* the parts of C30 that do not ask for every level of a profile
C30_SurfaceIndexed ==
    Ingested =>
        /\ \A parameter \in grib_info.has_parameter :
               IF param_is_profile(parameter)
               THEN \E level \in 0..(grib_info.num_levels - 1) :
                        GridDataIndex(parameter, level) >= 0
               ELSE GridDataIndex(parameter, 0) >= 0
        /\ grib_call.name \in {"read_aod", "read_lnsp"}
               => \A n \in 1..Len(grib_call.result) :
                      grib_call.result[n].assertion
        /\ \A n \in 1..grib_info.num_grid_data :
               LET parameter ==
                       get_grib_parameter(grib_info.grid_data_parameter_ref[n])
               IN  parameter # grib_param_unknown =>
                       GridDataIndex(parameter,
                           IF param_is_profile(parameter)
                           THEN grib_info.level[n] - 1 ELSE 0) = n - 1

=============================================================================
